---- MODULE Spec2Model ----
(***************************************************************************)
(* PhosDocs: the section pipeline of the backend (sectionProcessor,        *)
(* openaiService), the classifier and the document assembly of wordService *)
(* and the logo header of createHeaderWithLogo.                            *)
(*                                                                         *)
(* Texts are sequences of atoms.  An atom is either one of the characters  *)
(* the code's regular expressions and trims tell apart (space, newline,    *)
(* "[" and "]") or a word: a run of other characters, written as one       *)
(* string.                                                                 *)
(***************************************************************************)
EXTENDS Integers, Sequences, FiniteSets, TLC

\* ------------------------------------------------------------------ bounds
MaxLines == 2          \* lines of a description handed to the pipeline
MaxEnvRetries == 2     \* largest SECTION_MAX_RETRIES the environment sets
FastLatency == 1000    \* ms a quick external call takes
ShortTimeout == 500    \* ms of a SECTION_TIMEOUT set below FastLatency
ShortDelay == 700      \* ms of a SECTION_RETRY_DELAY set in the environment
SlowLatency == 400000 \* ms an external call slower than API_TIMEOUT takes
MaxTextLen == 4        \* atoms of a text handed to a pure function
MaxDocLines == 2       \* lines of the content handed to generateWordDocument

\* ------------------------------------------------- config/timeouts.js
MAX_RETRIES == 3
RETRY_DELAY == 2000
API_TIMEOUT == 300000

\* -------------------------------------------------------------- texts
IsSpace(c) == c \in {" ", "\n"}

RECURSIVE TrimStart(_)
TrimStart(s) ==
  IF s # <<>> /\ IsSpace(Head(s)) THEN TrimStart(Tail(s)) ELSE s

RECURSIVE TrimEnd(_)
TrimEnd(s) ==
  IF s # <<>> /\ IsSpace(s[Len(s)]) THEN TrimEnd(SubSeq(s, 1, Len(s) - 1)) ELSE s

\* String.prototype.trim
Trim(s) == TrimEnd(TrimStart(s))

\* String.prototype.split('\n'): never empty, "" splits into <<"">>
RECURSIVE Split(_)
Split(s) ==
  IF \A i \in 1..Len(s) : s[i] # "\n"
  THEN <<s>>
  ELSE LET i == CHOOSE k \in 1..Len(s) :
                  s[k] = "\n" /\ \A j \in 1..(k - 1) : s[j] # "\n"
       IN <<SubSeq(s, 1, i - 1)>> \o Split(SubSeq(s, i + 1, Len(s)))

\* Array.prototype.join('\n')
RECURSIVE Join(_)
Join(ls) ==
  IF ls = <<>> THEN <<>>
  ELSE IF Len(ls) = 1 THEN ls[1]
  ELSE ls[1] \o <<"\n">> \o Join(Tail(ls))

\* String.prototype.toLowerCase on one atom
Lower(c) ==
  CASE c = "BUG" -> "bug"
    [] c = "Bug" -> "bug"
    [] c = "Recurso" -> "recurso"
    [] c = "Funcionalidade" -> "funcionalidade"
    [] c = "Performance" -> "performance"
    [] c = "Segurança" -> "segurança"
    [] OTHER -> c

\* sectionType.charAt(0).toUpperCase() + sectionType.slice(1)
Capitalize(w) ==
  CASE w = "funcionalidade" -> "Funcionalidade"
    [] w = "bug" -> "Bug"
    [] w = "performance" -> "Performance"
    [] w = "segurança" -> "Segurança"
    [] w = "recurso" -> "Recurso"
    [] OTHER -> w

\* the keys of sectionTypeMap
SectionTypes == {"funcionalidade", "bug", "performance", "segurança", "recurso"}

\* .map(l => l.trim()).filter(l => l.length > 0) over the lines of a text
RECURSIVE TrimmedLinesOf(_)
TrimmedLinesOf(ls) ==
  IF ls = <<>> THEN <<>>
  ELSE LET l == Trim(Head(ls))
       IN (IF Len(l) > 0 THEN <<l>> ELSE <<>>) \o TrimmedLinesOf(Tail(ls))

NonBlankLines(text) == TrimmedLinesOf(Split(text))

\* line.replace(/^\s*\[[^\]]+\]\s*/i, '').trim(): one leading bracket tag
CleanedLineBug(line) == Trim(line)
CleanedLine(line) ==
  LET s == TrimStart(line)
  IN IF Len(s) >= 3 /\ s[1] = "[" /\ s[2] # "]"
        /\ \E k \in 3..Len(s) : s[k] = "]"
     THEN LET k == CHOOSE k \in 3..Len(s) :
                     s[k] = "]" /\ \A j \in 2..(k - 1) : s[j] # "]"
          IN Trim(SubSeq(s, k + 1, Len(s)))
     ELSE Trim(line)

FallbackTextNoContent(sectionType, content) ==
  <<"[", sectionType, "]", " ", Capitalize(sectionType), "\n">>
\* `[${sectionType}] ${sectionType.charAt(0).toUpperCase() + ...}\n${content}`
FallbackText(sectionType, content) ==
  <<"[", sectionType, "]", " ", Capitalize(sectionType), "\n">> \o content


\* the cleaned line pushed without its annotation
AnnotateUntagged(sectionType, cleanedLine) == cleanedLine
\* `[${section.type}] ${cleanedLine}`
Annotate(sectionType, cleanedLine) == <<"[", sectionType, "]", " ">> \o cleanedLine

\* lines 127-135 and 143-150: the lines one processed text adds to results
RECURSIVE AnnotateAll(_, _)
AnnotateAll(sectionType, lines) ==
  IF lines = <<>> THEN <<>>
  ELSE <<Annotate(sectionType, CleanedLine(Head(lines)))>>
         \o AnnotateAll(sectionType, Tail(lines))

PostProcess(sectionType, text) == AnnotateAll(sectionType, NonBlankLines(text))

\* /^\[(funcionalidade|bug|performance|segurança|recurso)\]\s*(.*)/i
SectionMatch(trimmedLine) ==
  /\ Len(trimmedLine) >= 3
  /\ trimmedLine[1] = "["
  /\ Lower(trimmedLine[2]) \in SectionTypes
  /\ trimmedLine[3] = "]"

\* [content, description].filter(Boolean).join(both ? '\n' : '')
CombinedContent(cur) ==
  IF cur.content # <<>> /\ cur.description # <<>>
  THEN cur.content \o <<"\n">> \o cur.description
  ELSE cur.content \o cur.description

\* the loop of extractSectionsFromContent; cur is <<>> for null
RECURSIVE ExtractLoop(_, _, _)
ExtractLoop(lines, sections, cur) ==
  IF lines = <<>>
  THEN IF cur = <<>> THEN sections
       ELSE Append(sections, [type |-> cur[1].type, content |-> CombinedContent(cur[1])])
  ELSE LET trimmedLine == Trim(Head(lines))
       IN IF trimmedLine = <<>> THEN ExtractLoop(Tail(lines), sections, cur)
          ELSE IF SectionMatch(trimmedLine)
          THEN ExtractLoop(
                 Tail(lines),
                 IF cur = <<>> THEN sections
                 ELSE Append(sections,
                        [type |-> cur[1].type, content |-> CombinedContent(cur[1])]),
                 <<[type |-> Lower(trimmedLine[2]),
                    content |-> Trim(SubSeq(trimmedLine, 4, Len(trimmedLine))),
                    description |-> <<>>]>>)
          ELSE IF cur # <<>>
          THEN ExtractLoop(
                 Tail(lines), sections,
                 <<[cur[1] EXCEPT !.description =
                      IF cur[1].description # <<>>
                      THEN cur[1].description \o <<"\n">> \o trimmedLine
                      ELSE trimmedLine]>>)
          ELSE ExtractLoop(Tail(lines), sections, cur)

extractSectionsFromContent(content) == ExtractLoop(Split(content), <<>>, <<>>)

\* ------------------------------------------------------ environment
\* parseInt(process.env.X) || dflt, with <<>> for an unset variable
ParseIntOr(v, dflt) == IF v = <<>> \/ v[1] = 0 THEN dflt ELSE v[1]

sectionMaxRetries(e) == ParseIntOr(e.maxRetries, MAX_RETRIES)
sectionRetryDelay(e) == ParseIntOr(e.retryDelay, RETRY_DELAY)
sectionTimeout(e) == ParseIntOr(e.timeout, API_TIMEOUT)

\* the process environments the runs start from: which SECTION_<KEY>_SYSTEM
\* and SECTION_<KEY>_USER prompts are set, and the SECTION_* overrides
EnvChoices ==
  { [sys |-> SectionTypes, user |-> SectionTypes,
     maxRetries |-> <<>>, retryDelay |-> <<>>, timeout |-> <<>>],
    [sys |-> {"bug"}, user |-> {"bug"},
     maxRetries |-> <<0>>, retryDelay |-> <<ShortDelay>>, timeout |-> <<>>],
    [sys |-> SectionTypes, user |-> SectionTypes,
     maxRetries |-> <<1>>, retryDelay |-> <<>>, timeout |-> <<ShortTimeout>>],
    [sys |-> {"bug", "recurso"}, user |-> {"bug", "recurso"},
     maxRetries |-> <<MaxEnvRetries>>, retryDelay |-> <<>>, timeout |-> <<>>],
    [sys |-> {"funcionalidade", "bug", "recurso"},
     user |-> {"funcionalidade", "bug", "performance"},
     maxRetries |-> <<1>>, retryDelay |-> <<>>, timeout |-> <<>>],
    [sys |-> {}, user |-> {},
     maxRetries |-> <<>>, retryDelay |-> <<>>, timeout |-> <<>>] }

\* what the external service answers when it answers with a completion
Responses ==
  { <<"x">>,
    <<" ", "x", "\n">>,
    <<" ">>,
    <<"[", "bug", "]", " ", "x">>,
    <<"[", "bug", "]", " ", "[", "bug", "]", " ", "x">>,
    <<"x", "\n", " ", "\n", "[", "Bug", "]">> }

\* how an external call can behave: resolve with a completion that has a
\* message text, reject, resolve with a completion without choices or text,
\* or never settle; and how long it takes to settle
ServiceBehaviours ==
  { [kind |-> "resolve", latency |-> FastLatency],
    [kind |-> "resolve", latency |-> SlowLatency],
    [kind |-> "reject", latency |-> FastLatency],
    [kind |-> "malformed", latency |-> FastLatency],
    [kind |-> "never", latency |-> 0] }

\* the lines descriptions are made of
LineChoices ==
  { <<"x">>,
    <<" ">>,
    <<"[", "bug", "]", " ", "x">>,
    <<"[", "BUG", "]">>,
    <<"[", "recurso", "]", " ", "[", "bug", "]", " ", "y">> }

RECURSIVE SeqsUpTo(_, _)
SeqsUpTo(S, n) ==
  IF n = 0 THEN {<<>>}
  ELSE LET shorter == SeqsUpTo(S, n - 1)
       IN shorter \cup {Append(s, x) : s \in shorter, x \in S}

Descriptions == {Join(ls) : ls \in SeqsUpTo(LineChoices, MaxLines)}


\* what processSection is called with when it is called on its own
DirectTypes == SectionTypes \cup {"outro"}
DirectContents == {<<"x">>, <<"[", "bug", "]", " ", "x", "\n", "y">>}

Titles == {<<>>, <<" ">>, <<"T">>}
MAX_IMAGES == 5
MAX_DESCRIPTION_LENGTH == 5000
ImageCounts == {0, MAX_IMAGES + 1}

\* a description of MAX_DESCRIPTION_LENGTH + 1 characters
LongDescription == [i \in 1..(MAX_DESCRIPTION_LENGTH + 1) |-> "x"]

\* the descriptions generateDocumentation is handed
GdDescriptions == Descriptions \cup {LongDescription}

\* validateInput without the test of the length
validateInputAnyLength(d) ==
  (IF d.title = <<>> \/ Trim(d.title) = <<>> THEN {"title"} ELSE {})
  \cup (IF d.description = <<>> \/ Trim(d.description) = <<>>
        THEN {"description"} ELSE {})
  \cup (IF d.images > MAX_IMAGES THEN {"images"} ELSE {})

\* validateInput: the errors it collects
validateInput(d) ==
  (IF d.title = <<>> \/ Trim(d.title) = <<>> THEN {"title"} ELSE {})
  \cup (IF d.description = <<>> \/ Trim(d.description) = <<>>
        THEN {"description"} ELSE {})
  \cup (IF d.description # <<>> /\ Len(d.description) > MAX_DESCRIPTION_LENGTH
        THEN {"length"} ELSE {})
  \cup (IF d.images > MAX_IMAGES THEN {"images"} ELSE {})

\* ------------------------------------------- wordService: the classifier
\* the keywords parseMarkdownContent looks for with includes()
FeatureKeywords == {"nova", "new", "adicionado", "implementado"}
EnhancementKeywords ==
  {"melhorado", "enhanced", "otimizado", "upgraded", "melhoria", "improvement",
   "redução", "reduction"}
BugfixKeywords == {"corrigido", "fixed", "bug", "erro"}
PerformanceKeywords ==
  {"performance", "velocidade", "speed", "tempo", "redução", "reduction",
   "carregamento", "loading", "otimização", "optimization"}
SecurityKeywords == {"segurança", "security", "vulnerabilidade"}
KnownIssueKeywords == {"problema", "issue", "conhecido"}
DeprecatedKeywords == {"deprecated", "obsoleto", "removido"}
ResourceKeywords == {"recurso", "resource", "manual", "documentação"}

\* lowerLine.includes(k) looked for at the start of the line only
IncludesAnyAtStart(line, ks) == Lower(line[1]) \in ks

\* lowerLine.includes(k) for some k of ks: no keyword holds a space or a
\* bracket, so a keyword lies inside one word; the words of the model that
\* hold a keyword are the keywords themselves, in any letter case
IncludesAny(line, ks) == \E i \in 1..Len(line) : Lower(line[i]) \in ks

\* startsWith on trimmedLine instead of lowerTrimmedLine
StartsWithMarkerCaseSensitive(line, tags) ==
  /\ Len(line) >= 3
  /\ line[1] = "[" /\ line[2] \in tags /\ line[3] = "]"

\* lowerTrimmedLine.startsWith('[' + t + ']') for some t of tags
StartsWithMarker(line, tags) ==
  /\ Len(line) >= 3
  /\ line[1] = "[" /\ Lower(line[2]) \in tags /\ line[3] = "]"

\* the content stored without the replace
WithoutMarkerKept(line) == line

\* trimmedLine.replace(/^\[(tag|...)\]\s*/i, '').trim() on a line that starts
\* with one of the tags
WithoutMarker(line) == Trim(SubSeq(line, 4, Len(line)))

\* lines 539-610: the entry pushed for one trimmed, non-empty line
EntryOf(line) ==
  IF StartsWithMarker(line, {"nova", "new", "funcionalidade"})
  THEN [type |-> "feature", content |-> WithoutMarker(line)]
  ELSE IF StartsWithMarker(line, {"correção", "bug", "fixed"})
  THEN [type |-> "bugfix", content |-> WithoutMarker(line)]
  ELSE IF StartsWithMarker(line, {"performance", "melhoria", "speed"})
  THEN [type |-> "performance", content |-> WithoutMarker(line)]
  ELSE IF StartsWithMarker(line, {"segurança", "security"})
  THEN [type |-> "security", content |-> WithoutMarker(line)]
  ELSE IF StartsWithMarker(line, {"recurso", "resource", "manual"})
  THEN [type |-> "resource", content |-> WithoutMarker(line)]
  ELSE IF IncludesAny(line, FeatureKeywords)
  THEN [type |-> "feature", content |-> line]
  ELSE IF IncludesAny(line, EnhancementKeywords)
  THEN [type |-> "enhancement", content |-> line]
  ELSE IF IncludesAny(line, BugfixKeywords)
  THEN [type |-> "bugfix", content |-> line]
  ELSE IF IncludesAny(line, PerformanceKeywords)
  THEN [type |-> "performance", content |-> line]
  ELSE IF IncludesAny(line, SecurityKeywords)
  THEN [type |-> "security", content |-> line]
  ELSE IF IncludesAny(line, KnownIssueKeywords)
  THEN [type |-> "known_issue", content |-> line]
  ELSE IF IncludesAny(line, DeprecatedKeywords)
  THEN [type |-> "deprecated", content |-> line]
  ELSE IF IncludesAny(line, ResourceKeywords)
  THEN [type |-> "resource", content |-> line]
  ELSE [type |-> "feature", content |-> line]

\* line 530: if (!line) continue, on the trimmed line
SkipsUntrimmed(raw) == raw = <<>>
Skips(raw) == Trim(raw) = <<>>

\* lines 527-611: the loop over the lines
RECURSIVE ParseLoop(_, _)
ParseLoop(lines, acc) ==
  IF lines = <<>> THEN acc
  ELSE IF Skips(Head(lines)) THEN ParseLoop(Tail(lines), acc)
  ELSE ParseLoop(Tail(lines), Append(acc, EntryOf(Trim(Head(lines)))))

\* a JavaScript value handed to parseMarkdownContent: a string, or not one
parseMarkdownContent(c) ==
  IF c.kind # "string" \/ c.text = <<>> THEN <<>>
  ELSE ParseLoop(Split(c.text), <<>>)

\* the atoms the classifier's inputs are made of
ClassifyAtoms == {" ", "\n", "[", "]", "bug", "x"}
\* every keyword of lines 564-599
AllKeywords ==
  FeatureKeywords \cup EnhancementKeywords \cup BugfixKeywords
  \cup PerformanceKeywords \cup SecurityKeywords \cup KnownIssueKeywords
  \cup DeprecatedKeywords \cup ResourceKeywords
\* the tags of lines 539-559, some of them in other letter cases
MarkerTags ==
  {"nova", "new", "funcionalidade", "correção", "bug", "fixed", "performance",
   "melhoria", "speed", "segurança", "security", "recurso", "resource", "manual"}
MarkerSpellings ==
  MarkerTags \cup {"BUG", "Bug", "Recurso", "Performance", "Segurança",
                   "Funcionalidade"}
\* lines that hold two keywords, or a bracketed word and a keyword
KeywordLines ==
  {<<k1, " ", k2>> : k1 \in AllKeywords \cup {"x", "BUG"}, k2 \in AllKeywords}
MarkerLines ==
  {<<"[", t, "]", " ", k>> :
     t \in MarkerSpellings \cup {"enhancement", "x"},
     k \in AllKeywords \cup {"x"}}
ClassifyInputs ==
  {[kind |-> k, text |-> <<>>] : k \in {"null", "undefined", "number", "object"}}
  \cup {[kind |-> "string", text |-> t] : t \in SeqsUpTo(ClassifyAtoms, MaxTextLen)}
  \cup {[kind |-> "string", text |-> t] : t \in KeywordLines \cup MarkerLines}

\* ------------------------------------ wordService: createStyledContentList
\* what the characters of an atom are to the regular expression of line 483
CharKind(a) ==
  CASE a \in {" ", "\n"} -> "space"
    [] a \in {"[", "]", "#"} -> "other"
    [] a = "ñ" -> "accented, not listed"
    [] a = "ação" -> "accented, listed"
    [] a = "a_b" -> "underscore"
    [] a \in {"%", ","} -> "punctuation"
    [] OTHER -> "word"

\* the class without the punctuation after the accented letters
KeptBySanitizerNoPunctuation(a) ==
  CharKind(a) \in {"word", "underscore", "space", "accented, listed"}

\* [\w\s\-\.áàâã...ÚÙÛÇ,;:!?()%]: the characters the replace leaves
KeptBySanitizer(a) ==
  CharKind(a) \in {"word", "underscore", "space", "accented, listed", "punctuation"}

\* item.content.replace(/[^...]/g, '').trim()
sanitizedContent(content) == Trim(SelectSeq(content, KeptBySanitizer))

\* line 465: !item || !item.content || typeof item.content !== 'string'
InvalidItem(item) == item.content = <<>>

\* lines 463-492: the paragraph made of one item
ItemParagraph(item) ==
  IF InvalidItem(item)
  THEN [kind |-> "placeholder", text |-> <<"Invalid content">>]
  ELSE [kind |-> "bullet", text |-> sanitizedContent(item.content)]

\* lines 445-493; it is called with the items of one type, never with none
createStyledContentList(items) ==
  IF items = <<>>
  THEN <<[kind |-> "paragraph", text |-> <<"...">>]>>
  ELSE [k \in 1..Len(items) |-> ItemParagraph(items[k])]

\* the order of the spec's display list, enhancement before performance
SectionOrderEnhancementFirst ==
  <<"feature", "bugfix", "enhancement", "performance", "security", "resource">>

\* lines 290-354: the types a section is made for, in the order of the code
SectionOrder ==
  <<"feature", "bugfix", "performance", "enhancement", "security", "resource">>

\* a filter that puts the entries without a section of their own under feature
OfTypeOrUnrendered(secs, type) ==
  SelectSeq(secs, LAMBDA s :
    \/ s.type = type
    \/ type = "feature" /\ s.type \in {"known_issue", "deprecated"})

\* sections.filter(s => s.type === type)
OfType(secs, type) == SelectSeq(secs, LAMBDA s : s.type = type)

\* one spread of lines 291-354: the heading and the list, or nothing
SectionBlock(secs, type) ==
  IF Len(OfType(secs, type)) > 0
  THEN <<[kind |-> "heading", text |-> <<type>>]>>
       \o createStyledContentList(OfType(secs, type))
  ELSE <<>>

\* lines 290-354, the part of `children` that depends on the content
RECURSIVE SectionBlocks(_, _)
SectionBlocks(secs, order) ==
  IF order = <<>> THEN <<>>
  ELSE SectionBlock(secs, Head(order)) \o SectionBlocks(secs, Tail(order))

\* the lines data.content is made of
WordLines ==
  { <<"x">>,
    <<"[", "bug", "]", " ", "y">>,
    <<"[", "bug", "]">>,
    <<"#">>,
    <<"#", " ", "x", ",">>,
    <<"a_b">>,
    <<"a", "ñ", "o">>,
    <<"ação", " ", "%">>,
    <<"conhecido">>,
    <<"melhorado">>,
    <<"performance">>,
    <<"[", "security", "]", " ", "s">>,
    <<"[", "recurso", "]", " ", "z">> }

WordContents ==
  {[kind |-> "undefined", text |-> <<>>]}
  \cup {[kind |-> "string", text |-> Join(ls)] : ls \in SeqsUpTo(WordLines, MaxDocLines)}

\* ------------------------------------------------- createHeaderWithLogo
DefaultTargetWidth == 120
DefaultMaxHeight == 100
twipsPerPixel == 15
MinDimension == 10
DIMENSOES_MAXIMAS == 2000
MinBase64Length == 100

\* a logo value: what kind of JavaScript value it is and, for a data URI, an
\* object with a base64 property or a Buffer, the image type it names, whether
\* its data reach MinBase64Length, and what the bytes decode to
LogoValue(kind, mime, long, decodes, w, h) ==
  [kind |-> kind, mime |-> mime, long |-> long, decodes |-> decodes,
   width |-> w, height |-> h]

NoLogo == LogoValue("absent", "", FALSE, FALSE, 0, 0)

\* pixel widths and heights of source images
SourceSizes == {1, 9, 10, 50, 333, 1833, 1872, 2000, 2001, 4000}
TargetWidths == {DefaultTargetWidth, 64}
MaxHeights == {DefaultMaxHeight, 30}

\* the images a logo may hold: too few bytes, bytes that do not decode, or an
\* image of some size
LogoImages(kind, mime) ==
  {LogoValue(kind, mime, FALSE, FALSE, 0, 0), LogoValue(kind, mime, TRUE, FALSE, 0, 0)}
  \cup {LogoValue(kind, mime, TRUE, TRUE, w, h) : w \in SourceSizes, h \in SourceSizes}

\* what createHeaderWithLogo may be called with
FitterLogos ==
  {NoLogo, LogoValue("other", "", FALSE, FALSE, 0, 0)}
  \cup UNION {LogoImages("dataURI", mt) : mt \in {"png", "jpeg", "gif", "bmp"}}
  \cup LogoImages("buffer", "png")

\* Math.round of a / b for a >= 0, b > 0.  The code rounds the double nearest
\* to the quotient; where the quotient is exactly halfway that double lies on
\* either side of it, so both neighbours are possible.
Round(a, b) ==
  IF 2 * (a % b) = b THEN {a \div b, (a \div b) + 1}
  ELSE IF 2 * (a % b) > b THEN {(a \div b) + 1}
  ELSE {a \div b}

\* the paragraph with `new TextRun({ text: "" })` only
EmptyHeader == [kind |-> "paragraph", image |-> FALSE, width |-> 0, height |-> 0]
ImageHeader(w, h) == [kind |-> "paragraph", image |-> TRUE, width |-> w, height |-> h]

\* part_001 lines 23-40: the checks before the bytes are decoded pass
SyncAccepts(logo) ==
  \/ /\ logo.kind = "dataURI"
     /\ logo.mime \in {"png", "jpeg", "jpg"}
     /\ logo.long
  \/ logo.kind = "buffer" /\ logo.long

\* lines 53-64: the width and height handed to ImageRun, computed in twips
SyncFit(w0, h0, targetWidth, maxHeight) ==
  LET targetWidthTwips == targetWidth * twipsPerPixel
      maxHeightTwips == maxHeight * twipsPerPixel
  IN UNION { IF heightTwips > maxHeightTwips
             THEN {<<w2, h2>> : w2 \in Round(targetWidthTwips * maxHeightTwips, heightTwips),
                                h2 \in Round(heightTwips * maxHeightTwips, heightTwips)}
             ELSE {<<targetWidthTwips, heightTwips>>}
             : heightTwips \in Round(h0 * targetWidthTwips, w0) }

\* lines 11-91: the paragraphs the synchronous createHeaderWithLogo may return
createHeaderWithLogoSync(logo, targetWidth, maxHeight) ==
  IF logo.kind = "absent" THEN {EmptyHeader}
  ELSE IF ~SyncAccepts(logo) THEN {EmptyHeader}
  ELSE IF ~logo.decodes \/ logo.width = 0 \/ logo.height = 0 THEN {EmptyHeader}
  ELSE IF logo.width < MinDimension \/ logo.height < MinDimension THEN {EmptyHeader}
  ELSE { IF f[1] <= 0 \/ f[2] <= 0 THEN EmptyHeader ELSE ImageHeader(f[1], f[2])
         : f \in SyncFit(logo.width, logo.height, targetWidth, maxHeight) }

\* lines 117-143: the checks and the conversion to PNG pass
AsyncAccepts(logo) ==
  \/ /\ logo.kind = "dataURI"
     /\ logo.mime \in {"png", "jpeg", "jpg", "gif", "webp"}
     /\ logo.long
     /\ logo.decodes
  \/ logo.kind = "buffer" /\ logo.decodes

\* lines 151-157
AsyncFit(w0, h0, targetWidth, maxHeight) ==
  UNION { IF h1 > maxHeight
          THEN {<<w2, h2>> : w2 \in Round(targetWidth * maxHeight, h1),
                             h2 \in Round(h1 * maxHeight, h1)}
          ELSE {<<targetWidth, h1>>}
          : h1 \in Round(h0 * targetWidth, w0) }

\* lines 105-179: the paragraphs the promise of the asynchronous
\* createHeaderWithLogo may resolve to
createHeaderWithLogoAsync(logo, targetWidth, maxHeight) ==
  IF logo.kind = "absent" THEN {EmptyHeader}
  ELSE IF ~AsyncAccepts(logo) THEN {EmptyHeader}
  ELSE IF logo.width > DIMENSOES_MAXIMAS \/ logo.height > DIMENSOES_MAXIMAS
  THEN {EmptyHeader}
  ELSE { ImageHeader(f[1], f[2])
         : f \in AsyncFit(logo.width, logo.height, targetWidth, maxHeight) }

\* ------------------------------------- wordService: generateWordDocument
\* the logos generateWordDocument is handed
WordLogos ==
  { NoLogo,
    LogoValue("path", "png", TRUE, TRUE, 333, 50),
    LogoValue("other", "", FALSE, FALSE, 0, 0),
    LogoValue("object", "png", TRUE, TRUE, 333, 50),
    LogoValue("object", "", FALSE, FALSE, 0, 0),
    LogoValue("dataURI", "png", TRUE, TRUE, 333, 50),
    LogoValue("dataURI", "jpeg", TRUE, TRUE, 4000, 2000),
    LogoValue("dataURI", "gif", TRUE, TRUE, 333, 50),
    LogoValue("dataURI", "png", FALSE, FALSE, 0, 0),
    LogoValue("dataURI", "png", TRUE, FALSE, 0, 0),
    LogoValue("dataURI", "png", TRUE, TRUE, 9, 9) }

\* lines 28-70: logoImageBuffer, the data URI kept or null
logoImageBufferOf(logo) ==
  IF logo.kind \in {"dataURI", "object"} /\ logo.mime \in {"png", "jpeg", "jpg"}
  THEN [logo EXCEPT !.kind = "dataURI"]
  ELSE NoLogo

\* -------------------------------------------------------------- state
VARIABLES
  entry,          \* the exported function the caller invoked
  env,            \* process.env, fixed for the run
  data,           \* the argument of generateDocumentation
  gdPc,           \* generateDocumentation: where it is
  gdError,        \* the error it threw, "" for none
  documentation,  \* the content of the object it returned
  pasPc,          \* processAllSections: where it is
  sections,       \* const sections
  idx,            \* the position of `for (const section of sections)`
  results,        \* const results
  pasReturn,      \* finalContent
  pasError,       \* the error it threw, "" for none
  invocations,    \* the section types processSection was called with
  psPc,           \* processSection: where it is
  psType,         \* sectionType
  psContent,      \* content
  attempt,        \* let attempt
  lastError,      \* let lastError
  svc,            \* the external call of the attempt under way
  psReturn,       \* the value processSection returned
  psError,        \* the error it threw, "" for none
  trace,          \* the attempts that ended and the sleeps that began
  apiCalls,       \* openRouter.chat.completions.create calls of this invocation
  pmcContent,     \* the argument of parseMarkdownContent
  parsedSections, \* the array parseMarkdownContent returned
  pmcPc,          \* parseMarkdownContent: where it is
  variant,        \* which createHeaderWithLogo the module is: "sync", "async"
  logo,           \* data.logo, or the logo createHeaderWithLogo is called with
  targetWidth,    \* createHeaderWithLogo's second argument
  maxHeight,      \* createHeaderWithLogo's third argument
  chlPc,          \* createHeaderWithLogo called on its own: where it is
  wdPc,           \* generateWordDocument: where it is
  logoImageBuffer, \* let logoImageBuffer
  headerParagraph, \* let headerParagraph, or the paragraph returned
  children,       \* the sections' part of the document's children
  wdReturn,       \* the value generateWordDocument returned, "" for none
  wdError,        \* the error it threw, "" for none
  late,           \* responses of abandoned external calls that have arrived
  now,            \* the browser's clock, in milliseconds
  notification,   \* useNotification: the notification state
  timers,         \* the setTimeout callbacks of showNotification not yet run
  shows,          \* the showNotification calls made
  appVariant,     \* which App component is mounted: "jsx" or "js"
  step,           \* App: the step state
  loading,        \* App: the loading state
  runs,           \* the executions of handleSubmit, each with its locals
  captionVariant, \* which generateImageCaption is linked: "prompted", "inline"
  captionPrompt,  \* whether process.env.IMAGE_CAPTION_PROMPT is set
  imageDescription, \* generateImageCaption's argument
  gcPc,           \* generateImageCaption: where it is
  gcAttempt,      \* its let attempt
  gcReturn,       \* the caption it returned
  gcTrace         \* its attempts that ended and the sleeps that began

cfgVars == <<entry, env, data>>
gdVars == <<gdPc, gdError, documentation>>
pasVars == <<pasPc, sections, idx, results, pasReturn, pasError, invocations>>
psVars == <<psPc, psType, psContent, attempt, lastError, svc, psReturn, psError,
            trace, apiCalls>>
docVars == <<variant, logo, targetWidth, maxHeight, chlPc, wdPc, logoImageBuffer,
             headerParagraph, children, wdReturn, wdError>>
notifyVars == <<now, notification, timers, shows>>
submitVars == <<appVariant, step, loading, runs>>
captionVars == <<captionVariant, captionPrompt, imageDescription, gcPc, gcAttempt,
                 gcReturn, gcTrace>>
sideVars == <<late, notifyVars, submitVars, captionVars>>
wsVars == <<pmcContent, parsedSections, pmcPc, docVars, sideVars>>
vars == <<cfgVars, gdVars, pasVars, psVars, wsVars>>

NoSvc == [kind |-> "none", latency |-> 0]
NoData == [title |-> <<>>, description |-> <<>>, images |-> 0]
NoContent == [kind |-> "undefined", text |-> <<>>]
NoHeader == [kind |-> "none", image |-> FALSE, width |-> 0, height |-> 0]

\* generateWordDocument and createHeaderWithLogo have not been called
WordIdle ==
  /\ variant = "sync" /\ logo = NoLogo
  /\ targetWidth = DefaultTargetWidth /\ maxHeight = DefaultMaxHeight
  /\ chlPc = "idle" /\ wdPc = "idle"
  /\ logoImageBuffer = NoLogo /\ headerParagraph = NoHeader
  /\ children = <<>> /\ wdReturn = "" /\ wdError = ""

NoNotification == [id |-> 0, at |-> 0]

\* no abandoned call has answered
LateIdle == late = 0
\* useNotification before any showNotification
NotifyIdle ==
  /\ now = 0 /\ notification = NoNotification /\ timers = {} /\ shows = 0
\* App as mounted: useState('form'), useState(false)
SubmitIdle ==
  /\ appVariant = "jsx" /\ step = "form" /\ loading = FALSE /\ runs = <<>>
\* generateImageCaption has not been called
CaptionIdle ==
  /\ captionVariant = "prompted" /\ captionPrompt = TRUE
  /\ imageDescription = <<>>
  /\ gcPc = "idle" /\ gcAttempt = 0 /\ gcReturn = <<>> /\ gcTrace = <<>>

SideIdle == LateIdle /\ NotifyIdle /\ SubmitIdle /\ CaptionIdle

Init ==
  /\ env \in EnvChoices
  /\ pmcContent = NoContent /\ parsedSections = <<>> /\ pmcPc = "idle"
  /\ WordIdle
  /\ SideIdle
  /\ gdError = "" /\ documentation = <<>>
  /\ pasPc = "idle" /\ sections = <<>> /\ idx = 0 /\ results = <<>>
  /\ pasReturn = <<>> /\ pasError = "" /\ invocations = <<>>
  /\ attempt = 0 /\ lastError = "" /\ svc = NoSvc /\ psReturn = <<>>
  /\ psError = "" /\ trace = <<>> /\ apiCalls = 0
  /\ entry \in {"processSection", "generateDocumentation"}
  /\ IF entry = "processSection"
     THEN /\ data = NoData /\ gdPc = "idle"
          /\ psPc = "entered"
          /\ psType \in DirectTypes
          /\ psContent \in DirectContents
     ELSE /\ data \in [title : Titles, description : GdDescriptions, images : ImageCounts]
          /\ gdPc = "start"
          /\ psPc = "idle" /\ psType = "" /\ psContent = <<>>

\* ------------------------------------------------------ processSection
\* a call of processSection(sectionType, content, title)
Invoke(sectionType, content) ==
  /\ psPc' = "entered" /\ psType' = sectionType /\ psContent' = content
  /\ attempt' = 0 /\ lastError' = "" /\ svc' = NoSvc /\ psReturn' = <<>>
  /\ psError' = "" /\ trace' = <<>> /\ apiCalls' = 0

\* line 48: !systemPrompt || !userPromptTemplate
PromptsMissingSystemOnly(sectionType) == sectionType \notin env.sys
PromptsMissing(sectionType) == sectionType \notin env.sys \/ sectionType \notin env.user

\* lines 31-61: the prompt lookup, then the loop's initialisation
PS_Enter ==
  /\ psPc = "entered"
  /\ IF psType \notin SectionTypes
     THEN /\ psPc' = "thrown" /\ psError' = "unsupported"
          /\ UNCHANGED attempt
     ELSE IF PromptsMissing(psType)
     THEN /\ psPc' = "thrown" /\ psError' = "unconfigured"
          /\ UNCHANGED attempt
     ELSE /\ psPc' = "loop" /\ attempt' = 1
          /\ UNCHANGED psError
  /\ UNCHANGED <<psType, psContent, lastError, svc, psReturn, trace, apiCalls>>
  /\ UNCHANGED <<wsVars, cfgVars, gdVars, pasVars>>

\* line 62, then lines 66-87 (the call and the timer start) or 105-106
LoopTestOffByOne(a, max) == a <= max + 1
LoopTest(a, max) == a <= max
PS_Loop ==
  /\ psPc = "loop"
  /\ IF LoopTest(attempt, sectionMaxRetries(env))
     THEN /\ svc' \in ServiceBehaviours
          /\ apiCalls' = apiCalls + 1
          /\ psPc' = "race"
          /\ UNCHANGED psReturn
     ELSE /\ psReturn' = FallbackText(psType, psContent)
          /\ psPc' = "returned"
          /\ UNCHANGED <<svc, apiCalls>>
  /\ UNCHANGED <<psType, psContent, attempt, lastError, psError, trace>>
  /\ UNCHANGED <<wsVars, cfgVars, gdVars, pasVars>>

AttemptEvent(outcome, ms, text) ==
  [ev |-> "attempt", n |-> attempt, call |-> svc.kind, outcome |-> outcome,
   ms |-> ms, text |-> text]
WaitEvent(ms) ==
  [ev |-> "wait", n |-> attempt, call |-> "", outcome |-> "", ms |-> ms,
   text |-> <<>>]

\* the completion is taken whenever the call answers, timer or not
ServiceFirstOrLate == svc.kind # "never"
ServiceFirst == svc.kind # "never" /\ svc.latency < sectionTimeout(env)
TimerFirst == svc.kind = "never" \/ svc.latency >= sectionTimeout(env)

\* lines 87-91: the call settles first with a completion that has a text
ResultOf(text) == Trim(text)
PS_Resolve ==
  /\ psPc = "race" /\ svc.kind = "resolve" /\ ServiceFirst
  /\ \E text \in Responses :
       /\ psReturn' = ResultOf(text)
       /\ trace' = Append(trace, AttemptEvent("ok", svc.latency, text))
  /\ psPc' = "returned" /\ svc' = NoSvc
  /\ UNCHANGED <<psType, psContent, attempt, lastError, psError, apiCalls>>
  /\ UNCHANGED <<wsVars, cfgVars, gdVars, pasVars>>

\* lines 93-101: the catch block
SleepsAfterEvery(a, max) == a <= max
SleepsAfter(a, max) == a < max
Catch(error, ms) ==
  /\ lastError' = error
  /\ svc' = NoSvc
  /\ IF SleepsAfter(attempt, sectionMaxRetries(env))
     THEN /\ trace' = trace \o <<AttemptEvent(error, ms, <<>>),
                                 WaitEvent(sectionRetryDelay(env))>>
          /\ psPc' = "sleep"
          /\ UNCHANGED attempt
     ELSE /\ trace' = Append(trace, AttemptEvent(error, ms, <<>>))
          /\ psPc' = "loop"
          /\ attempt' = attempt + 1
  /\ UNCHANGED <<psType, psContent, psReturn, psError, apiCalls>>
  /\ UNCHANGED <<wsVars, cfgVars, gdVars, pasVars>>

\* the call rejects first, or line 88 throws on a completion without a text
PS_Fail ==
  /\ psPc = "race" /\ svc.kind \in {"reject", "malformed"} /\ ServiceFirst
  /\ Catch(svc.kind, svc.latency)

\* line 67: the timer rejects first
TimerFiresUnlessPending == svc.kind # "never" /\ TimerFirst
TimerFires == TimerFirst
PS_Timeout ==
  /\ psPc = "race" /\ TimerFires
  /\ Catch("timeout", sectionTimeout(env))

\* line 99: the sleep ends, the loop goes on
PS_Wake ==
  /\ psPc = "sleep"
  /\ psPc' = "loop"
  /\ attempt' = attempt + 1
  /\ UNCHANGED <<psType, psContent, lastError, svc, psReturn, psError, trace, apiCalls>>
  /\ UNCHANGED <<wsVars, cfgVars, gdVars, pasVars>>


\* -------------------------------------------------- processAllSections
\* lines 124-126 and 140-142: the next section, or the end of the loop
ProcessableAnyContent(section) == section.type # ""
Processable(section) == section.type # "" /\ section.content # <<>>
NoResults(r) == Len(r) = 0
PAS_Loop ==
  /\ pasPc = "loop"
  /\ IF idx <= Len(sections)
     THEN IF Processable(sections[idx])
          THEN /\ Invoke(sections[idx].type, sections[idx].content)
               /\ invocations' = Append(invocations, sections[idx].type)
               /\ pasPc' = "awaitSection"
               /\ UNCHANGED <<idx, pasReturn>>
          ELSE /\ idx' = idx + 1
               /\ UNCHANGED <<pasPc, pasReturn, invocations, psVars>>
     ELSE IF NoResults(results)
          THEN /\ Invoke("funcionalidade", data.description)
               /\ invocations' = Append(invocations, "funcionalidade")
               /\ pasPc' = "awaitWhole"
               /\ UNCHANGED <<idx, pasReturn>>
          ELSE /\ pasReturn' = Join(results)
               /\ pasPc' = "returned"
               /\ UNCHANGED <<idx, invocations, psVars>>
  /\ UNCHANGED <<sections, results, pasError>>
  /\ UNCHANGED <<wsVars, cfgVars, gdVars>>

\* lines 126-135: processSection returned for a section of the loop
PAS_Resume ==
  /\ pasPc = "awaitSection" /\ psPc = "returned"
  /\ results' = results \o PostProcess(sections[idx].type, psReturn)
  /\ idx' = idx + 1
  /\ pasPc' = "loop"
  /\ psPc' = "idle"
  /\ UNCHANGED <<psType, psContent, attempt, lastError, svc, psReturn, psError,
                 trace, apiCalls>>
  /\ UNCHANGED <<sections, pasReturn, pasError, invocations>>
  /\ UNCHANGED <<wsVars, cfgVars, gdVars>>

\* lines 142-157: processSection returned for the whole description
PAS_ResumeWhole ==
  /\ pasPc = "awaitWhole" /\ psPc = "returned"
  /\ results' = results \o PostProcess("funcionalidade", psReturn)
  /\ pasReturn' = Join(results')
  /\ pasPc' = "returned"
  /\ psPc' = "idle"
  /\ UNCHANGED <<psType, psContent, attempt, lastError, svc, psReturn, psError,
                 trace, apiCalls>>
  /\ UNCHANGED <<sections, idx, pasError, invocations>>
  /\ UNCHANGED <<wsVars, cfgVars, gdVars>>

\* the catch block skips the section that threw and the loop goes on
PAS_CatchAndContinue ==
  /\ pasPc \in {"awaitSection", "awaitWhole"} /\ psPc = "thrown"
  /\ pasError' = psError
  /\ IF pasPc = "awaitSection"
     THEN pasPc' = "loop" /\ idx' = idx + 1
     ELSE pasPc' = "thrown" /\ idx' = idx
  /\ psPc' = "idle"
  /\ UNCHANGED <<psType, psContent, attempt, lastError, svc, psReturn, psError,
                 trace, apiCalls>>
  /\ UNCHANGED <<sections, results, pasReturn, invocations>>
  /\ UNCHANGED <<wsVars, cfgVars, gdVars>>

\* lines 159-162: processSection threw
PAS_Catch ==
  /\ pasPc \in {"awaitSection", "awaitWhole"} /\ psPc = "thrown"
  /\ pasError' = psError
  /\ pasPc' = "thrown"
  /\ psPc' = "idle"
  /\ UNCHANGED <<psType, psContent, attempt, lastError, svc, psReturn, psError,
                 trace, apiCalls>>
  /\ UNCHANGED <<sections, idx, results, pasReturn, invocations>>
  /\ UNCHANGED <<wsVars, cfgVars, gdVars>>

\* ------------------------------------------------ generateDocumentation
\* lines 66-78: validation, then the call of processAllSections (114-121)
GD_Start ==
  /\ gdPc = "start"
  /\ IF validateInput(data) # {}
     THEN /\ gdPc' = "thrown" /\ gdError' = "validation"
          /\ UNCHANGED pasVars
     ELSE /\ gdPc' = "awaiting"
          /\ sections' = extractSectionsFromContent(data.description)
          /\ idx' = 1
          /\ results' = <<>>
          /\ pasPc' = "loop"
          /\ UNCHANGED <<gdError, pasReturn, pasError, invocations>>
  /\ UNCHANGED <<documentation, wsVars, cfgVars, psVars>>

\* lines 80-92
GD_Return ==
  /\ gdPc = "awaiting" /\ pasPc = "returned"
  /\ documentation' = pasReturn
  /\ gdPc' = "returned"
  /\ pasPc' = "idle"
  /\ UNCHANGED <<gdError, sections, idx, results, pasReturn, pasError, invocations>>
  /\ UNCHANGED <<wsVars, cfgVars, psVars>>

\* lines 94-97
GD_Catch ==
  /\ gdPc = "awaiting" /\ pasPc = "thrown"
  /\ gdError' = pasError
  /\ gdPc' = "thrown"
  /\ pasPc' = "idle"
  /\ UNCHANGED <<documentation, sections, idx, results, pasReturn, pasError, invocations>>
  /\ UNCHANGED <<wsVars, cfgVars, psVars>>

\* the steps of processSection
PsNext == PS_Enter \/ PS_Loop \/ PS_Resolve \/ PS_Fail \/ PS_Timeout \/ PS_Wake

Next ==
  \/ PS_Enter \/ PS_Loop \/ PS_Resolve \/ PS_Fail \/ PS_Timeout \/ PS_Wake
  \/ PAS_Loop \/ PAS_Resume \/ PAS_ResumeWhole \/ PAS_Catch
  \/ GD_Start \/ GD_Return \/ GD_Catch

Spec == Init /\ [][Next]_vars

\* the event loop runs every continuation and timer of processSection that is
\* ready: a settled promise's continuation, a setTimeout callback that is due
FairSpec == Spec /\ WF_vars(PsNext)

\* ------------------------------------------------ parseMarkdownContent
\* the classifier called on its own
InitClassify ==
  /\ entry = "parseMarkdownContent"
  /\ env \in {e \in EnvChoices : e.sys = {}}
  /\ data = NoData
  /\ gdPc = "idle" /\ gdError = "" /\ documentation = <<>>
  /\ pasPc = "idle" /\ sections = <<>> /\ idx = 0 /\ results = <<>>
  /\ pasReturn = <<>> /\ pasError = "" /\ invocations = <<>>
  /\ psPc = "idle" /\ psType = "" /\ psContent = <<>>
  /\ attempt = 0 /\ lastError = "" /\ svc = NoSvc /\ psReturn = <<>>
  /\ psError = "" /\ trace = <<>> /\ apiCalls = 0
  /\ pmcContent \in ClassifyInputs
  /\ parsedSections = <<>>
  /\ pmcPc = "start"
  /\ WordIdle
  /\ SideIdle

\* lines 515-616
PMC_Run ==
  /\ pmcPc = "start"
  /\ parsedSections' = parseMarkdownContent(pmcContent)
  /\ pmcPc' = "returned"
  /\ UNCHANGED <<pmcContent, docVars, sideVars, cfgVars, gdVars, pasVars, psVars>>

NextClassify == PMC_Run

SpecClassify == InitClassify /\ [][NextClassify]_vars

\* ------------------------------------------------ generateWordDocument
\* the pipeline and the classifier are not running
OthersIdle ==
  /\ env \in {e \in EnvChoices : e.sys = {}}
  /\ data = NoData
  /\ gdPc = "idle" /\ gdError = "" /\ documentation = <<>>
  /\ pasPc = "idle" /\ sections = <<>> /\ idx = 0 /\ results = <<>>
  /\ pasReturn = <<>> /\ pasError = "" /\ invocations = <<>>
  /\ psPc = "idle" /\ psType = "" /\ psContent = <<>>
  /\ attempt = 0 /\ lastError = "" /\ svc = NoSvc /\ psReturn = <<>>
  /\ psError = "" /\ trace = <<>> /\ apiCalls = 0
  /\ parsedSections = <<>> /\ pmcPc = "idle"

\* generateWordDocument(data) is called
InitWord ==
  /\ entry = "generateWordDocument"
  /\ OthersIdle
  /\ SideIdle
  /\ pmcContent \in WordContents
  /\ logo \in WordLogos
  /\ variant \in {"sync", "async"}
  /\ targetWidth = DefaultTargetWidth /\ maxHeight = DefaultMaxHeight
  /\ chlPc = "idle" /\ wdPc = "start"
  /\ logoImageBuffer = NoLogo /\ headerParagraph = NoHeader
  /\ children = <<>> /\ wdReturn = "" /\ wdError = ""

WordRest == <<cfgVars, gdVars, pasVars, psVars, pmcPc, pmcContent, variant, logo,
              targetWidth, maxHeight, chlPc, sideVars>>

\* line 19
WD_Parse ==
  /\ wdPc = "start"
  /\ parsedSections' = parseMarkdownContent(pmcContent)
  /\ wdPc' = "logo"
  /\ UNCHANGED <<WordRest, logoImageBuffer, headerParagraph, children, wdReturn,
                 wdError>>

\* lines 28-70
WD_Logo ==
  /\ wdPc = "logo"
  /\ logoImageBuffer' = logoImageBufferOf(logo)
  /\ wdPc' = "header"
  /\ UNCHANGED <<WordRest, parsedSections, headerParagraph, children, wdReturn,
                 wdError>>

\* lines 73-75: the call is not awaited, and the value it returns is read as
\* a paragraph (headerParagraph.root.rootKey); a promise has no root
WD_Header ==
  /\ wdPc = "header"
  /\ IF variant = "sync"
     THEN /\ headerParagraph' \in
               createHeaderWithLogoSync(logoImageBuffer, DefaultTargetWidth,
                                        DefaultMaxHeight)
          /\ wdPc' = "assemble"
     ELSE /\ headerParagraph' = [NoHeader EXCEPT !.kind = "promise"]
          /\ wdPc' = "catch"
  /\ UNCHANGED <<WordRest, parsedSections, logoImageBuffer, children, wdReturn,
                 wdError>>

\* lines 78-357
WD_Assemble ==
  /\ wdPc = "assemble"
  /\ children' = SectionBlocks(parsedSections, SectionOrder)
  /\ wdPc' = "pack"
  /\ UNCHANGED <<WordRest, parsedSections, logoImageBuffer, headerParagraph,
                 wdReturn, wdError>>

\* lines 360-376
WD_Pack ==
  /\ wdPc = "pack"
  /\ wdReturn' = "buffer"
  /\ wdPc' = "returned"
  /\ UNCHANGED <<WordRest, parsedSections, logoImageBuffer, headerParagraph,
                 children, wdError>>

\* lines 384-387
WD_Catch ==
  /\ wdPc = "catch"
  /\ wdError' = "Failed to generate Word document"
  /\ wdPc' = "thrown"
  /\ UNCHANGED <<WordRest, parsedSections, logoImageBuffer, headerParagraph,
                 children, wdReturn>>

NextWord ==
  \/ WD_Parse \/ WD_Logo \/ WD_Header \/ WD_Assemble \/ WD_Pack \/ WD_Catch

SpecWord == InitWord /\ [][NextWord]_vars

\* ------------------------------------------------ createHeaderWithLogo
\* createHeaderWithLogo(logo, targetWidth, maxHeight) is called on its own
InitLogo ==
  /\ entry = "createHeaderWithLogo"
  /\ OthersIdle
  /\ SideIdle
  /\ pmcContent = NoContent
  /\ variant \in {"sync", "async"}
  /\ logo \in FitterLogos
  /\ targetWidth \in TargetWidths /\ maxHeight \in MaxHeights
  /\ chlPc = "start" /\ wdPc = "idle"
  /\ logoImageBuffer = NoLogo /\ headerParagraph = NoHeader
  /\ children = <<>> /\ wdReturn = "" /\ wdError = ""

\* part_001 lines 11-91 and 105-179
CHL_Run ==
  /\ chlPc = "start"
  /\ headerParagraph' \in
       IF variant = "sync"
       THEN createHeaderWithLogoSync(logo, targetWidth, maxHeight)
       ELSE createHeaderWithLogoAsync(logo, targetWidth, maxHeight)
  /\ chlPc' = "returned"
  /\ UNCHANGED <<cfgVars, gdVars, pasVars, psVars, pmcContent, parsedSections,
                 pmcPc, variant, logo, targetWidth, maxHeight, wdPc,
                 logoImageBuffer, children, wdReturn, wdError, sideVars>>

NextLogo == CHL_Run

SpecLogo == InitLogo /\ [][NextLogo]_vars

\* ------------------------------- processSection and its abandoned calls
\* Promise.race (part_002 line 87) leaves the call that lost the race
\* running: nothing aborts it, its promise settles when the service answers

\* the attempts of this invocation whose timer fired while the call, one
\* that answers at some time, was pending
AbandonedCalls ==
  Cardinality({i \in 1..Len(trace) :
                 /\ trace[i].ev = "attempt" /\ trace[i].outcome = "timeout"
                 /\ trace[i].call # "never"})

\* processSection called directly
InitLate == Init /\ entry = "processSection"

\* the response of an abandoned call arrives: its promise settles, the race
\* it was part of is over, no continuation of processSection waits for it
PS_Late ==
  /\ late < AbandonedCalls
  /\ late' = late + 1
  /\ UNCHANGED <<notifyVars, submitVars, captionVars>>
  /\ UNCHANGED <<cfgVars, gdVars, pasVars, psVars>>
  /\ UNCHANGED <<pmcContent, parsedSections, pmcPc, docVars>>

NextLate ==
  \/ PS_Enter \/ PS_Loop \/ PS_Resolve \/ PS_Fail \/ PS_Timeout \/ PS_Wake
  \/ PS_Late

SpecLate == InitLate /\ [][NextLate]_vars

\* ------------------------------------------------------ useNotification
\* part_008 lines 3-15 (and App.js lines 19-23, the same two statements)

\* setTimeout(..., 3000)
NotificationDelay == 3000
\* most showNotification calls of a run, and where its clock stops
MaxShows == 3
MaxClock == 8000
\* how far the clock moves in one step
ClockSteps == {1000, 2000}

\* the side specifications' common start: nothing of the backend runs
BackendIdle == OthersIdle /\ WordIdle /\ pmcContent = NoContent

InitNotify ==
  /\ entry = "showNotification"
  /\ BackendIdle
  /\ LateIdle /\ SubmitIdle /\ CaptionIdle
  /\ now = 0 /\ notification = NoNotification /\ timers = {} /\ shows = 0

\* the timer started by the call that has just been made
TimerOfShow == [id |-> shows + 1, due |-> now + NotificationDelay]

\* lines 6-9: showNotification(message, type)
SN_Show ==
  /\ shows < MaxShows
  /\ shows' = shows + 1
  /\ notification' = [id |-> shows + 1, at |-> now]
  /\ timers' = timers \cup {TimerOfShow}
  /\ UNCHANGED now
  /\ UNCHANGED <<late, submitVars, captionVars>>
  /\ UNCHANGED <<cfgVars, gdVars, pasVars, psVars, pmcContent, parsedSections,
                 pmcPc, docVars>>

\* line 8: () => setNotification(null)
ClearedBy(t) == NoNotification

\* a timer is due: its callback runs
SN_Fire ==
  /\ \E t \in timers :
       /\ t.due <= now
       /\ notification' = ClearedBy(t)
       /\ timers' = timers \ {t}
  /\ UNCHANGED <<now, shows>>
  /\ UNCHANGED <<late, submitVars, captionVars>>
  /\ UNCHANGED <<cfgVars, gdVars, pasVars, psVars, pmcContent, parsedSections,
                 pmcPc, docVars>>

\* time passes, never beyond a timer that is due
SN_Tick ==
  /\ \E d \in ClockSteps :
       /\ now + d <= MaxClock
       /\ \A t \in timers : now + d <= t.due
       /\ now' = now + d
  /\ UNCHANGED <<notification, timers, shows>>
  /\ UNCHANGED <<late, submitVars, captionVars>>
  /\ UNCHANGED <<cfgVars, gdVars, pasVars, psVars, pmcContent, parsedSections,
                 pmcPc, docVars>>

NextNotify == SN_Show \/ SN_Fire \/ SN_Tick

SpecNotify == InitNotify /\ [][NextNotify]_vars

\* -------------------------------------------------- generateImageCaption
\* part_003 lines 105-159 reads process.env.IMAGE_CAPTION_PROMPT inside the
\* loop; src/backend/services/openaiService.js lines 195-243, the module that
\* imageService.js requires, has the prompt in the code and reads no variable

\* the names uploadImage passes as the description
ImageDescriptions == {<<"x">>, <<" ", "x", " ">>}

\* `Imagem técnica - ${imageDescription}`
CaptionFallback(d) == <<"Imagem", " ", "técnica", " ", "-", " ">> \o d

InitCaption ==
  /\ entry = "generateImageCaption"
  /\ BackendIdle
  /\ LateIdle /\ NotifyIdle /\ SubmitIdle
  /\ captionVariant \in {"prompted", "inline"}
  /\ captionPrompt \in BOOLEAN
  /\ imageDescription \in ImageDescriptions
  /\ gcPc = "loop" /\ gcAttempt = 1 /\ gcReturn = <<>> /\ gcTrace = <<>>

CaptionRest == <<late, notifyVars, submitVars, cfgVars, gdVars, pasVars, psVars,
                 pmcContent, parsedSections, pmcPc, docVars, captionVariant,
                 captionPrompt, imageDescription>>

GcAttemptEvent(called, outcome, text) ==
  [ev |-> "attempt", n |-> gcAttempt, called |-> called, outcome |-> outcome,
   ms |-> 0, text |-> text]
GcWaitEvent ==
  [ev |-> "wait", n |-> gcAttempt, called |-> FALSE, outcome |-> "",
   ms |-> RETRY_DELAY, text |-> <<>>]

\* the catch block of the loop (part_003 lines 139-147)
GcCatch(called, error) ==
  IF gcAttempt < MAX_RETRIES
  THEN /\ gcTrace' = gcTrace \o <<GcAttemptEvent(called, error, <<>>), GcWaitEvent>>
       /\ gcPc' = "sleep"
       /\ UNCHANGED gcAttempt
  ELSE /\ gcTrace' = Append(gcTrace, GcAttemptEvent(called, error, <<>>))
       /\ gcPc' = "loop"
       /\ gcAttempt' = gcAttempt + 1

\* part_003 lines 112-116: if (!imageCaptionPrompt) throw
PromptMissing == captionVariant = "prompted" /\ ~captionPrompt

\* the loop test, then the prompt's test or the call; after the loop the
\* fallback caption (lines 150-152)
GC_Loop ==
  /\ gcPc = "loop"
  /\ IF gcAttempt <= MAX_RETRIES
     THEN IF PromptMissing
          THEN GcCatch(FALSE, "unconfigured") /\ UNCHANGED gcReturn
          ELSE /\ gcPc' = "call"
               /\ UNCHANGED <<gcAttempt, gcReturn, gcTrace>>
     ELSE /\ gcReturn' = CaptionFallback(imageDescription)
          /\ gcPc' = "returned"
          /\ UNCHANGED <<gcAttempt, gcTrace>>
  /\ UNCHANGED CaptionRest

\* lines 118-137: the completion arrives with a text
GC_Resolve ==
  /\ gcPc = "call"
  /\ \E text \in Responses :
       /\ gcReturn' = Trim(text)
       /\ gcTrace' = Append(gcTrace, GcAttemptEvent(TRUE, "ok", text))
  /\ gcPc' = "returned"
  /\ UNCHANGED gcAttempt
  /\ UNCHANGED CaptionRest

\* the call rejects, or line 135 throws on a completion without a text
GC_Fail ==
  /\ gcPc = "call"
  /\ \E error \in {"reject", "malformed"} : GcCatch(TRUE, error)
  /\ UNCHANGED gcReturn
  /\ UNCHANGED CaptionRest

\* line 145: the sleep ends
GC_Wake ==
  /\ gcPc = "sleep"
  /\ gcPc' = "loop"
  /\ gcAttempt' = gcAttempt + 1
  /\ UNCHANGED <<gcReturn, gcTrace>>
  /\ UNCHANGED CaptionRest

NextCaption == GC_Loop \/ GC_Resolve \/ GC_Fail \/ GC_Wake

SpecCaption == InitCaption /\ [][NextCaption]_vars

\* --------------------------------------------------- App: handleSubmit
\* App.jsx lines 67-157 (with the retry loop of lines 102-129) and App.js
\* lines 138-181 (one call, no retry); generateDocumentation of api.js

\* const maxRetries = 3 and setTimeout(resolve, 2000)
FrontendMaxRetries == 3
FrontendRetryWait == 2000
\* most submissions of a run of the page
MaxSubmits == 2

\* the messages of the errors generateDocumentation can reject with: the
\* one api.js throws for a response that is not ok, and what fetch may say
ErrorMessages ==
  { <<"HTTP", " ", "error!", " ", "status:", " ", "500">>,
    <<"Failed", " ", "to", " ", "fetch">>,
    <<"network", " ", "timeout">>,
    <<"Request", " ", "Timeout">> }

\* the test made without regard to the letter case
IncludesTimeoutAnyCase(msg) ==
  \E i \in 1..Len(msg) : msg[i] \in {"timeout", "Timeout"}
\* error.message.includes('timeout'): the words of the messages that hold
\* 'timeout' in this letter case are the word itself
IncludesTimeout(msg) == \E i \in 1..Len(msg) : msg[i] = "timeout"

\* what response.json() gives for an ok response: the backend's object with
\* its documentation field, or a JSON value without one
JsonResults == {"full", "bare"}

InitSubmit ==
  /\ entry = "handleSubmit"
  /\ BackendIdle
  /\ LateIdle /\ NotifyIdle /\ CaptionIdle
  /\ appVariant \in {"jsx", "js"}
  /\ step = "form" /\ loading = FALSE /\ runs = <<>>

SubmitRest == <<late, notifyVars, captionVars, cfgVars, gdVars, pasVars, psVars,
                pmcContent, parsedSections, pmcPc, docVars, appVariant>>

HsEvent(ev, msg, ms) == [ev |-> ev, msg |-> msg, ms |-> ms]
CallEvent == HsEvent("call", <<>>, 0)

\* a handleSubmit that has just been called: let documentation (undefined),
\* let retryCount = 0
NewRun(pc, events) ==
  [pc |-> pc, retryCount |-> 0, documentation |-> "undefined", left |-> "no",
   trace |-> events]

\* the form is on the page and its submit button is not disabled
\* (App.jsx lines 164-175, DocumentForm.js line 120, App.js lines 214, 282)
SubmitEnabledWhileLoading == step = "form"
SubmitEnabled == step = "form" /\ ~loading

\* the submit event: the code that runs up to the first await
HS_Submit ==
  /\ Len(runs) < MaxSubmits
  /\ SubmitEnabled
  /\ \E valid \in BOOLEAN, images \in {0, 1} :
       IF ~valid
       THEN /\ runs' = Append(runs, NewRun("rejected", <<>>))
            /\ UNCHANGED loading
       ELSE /\ loading' = TRUE
            /\ runs' = Append(runs,
                 IF images > 0 THEN NewRun("uploading", <<>>)
                 ELSE NewRun("calling", <<CallEvent>>))
  /\ UNCHANGED step
  /\ UNCHANGED SubmitRest

\* the catch and finally blocks of handleSubmit, reached by a throw
Thrown(r, how) == [r EXCEPT !.pc = "done", !.left = how]

\* uploadImages settles: App.jsx's rethrows a failed upload (api.js line 29),
\* App.js's notifies and goes on (App.js lines 101-104)
HS_Uploaded(i) ==
  /\ runs[i].pc = "uploading"
  /\ \E ok \in BOOLEAN :
       IF ~ok /\ appVariant = "jsx"
       THEN /\ runs' = [runs EXCEPT ![i] = Thrown(@, "upload")]
            /\ loading' = FALSE
       ELSE /\ runs' = [runs EXCEPT ![i].pc = "calling",
                                    ![i].trace = Append(@, CallEvent)]
            /\ UNCHANGED loading
  /\ UNCHANGED step
  /\ UNCHANGED SubmitRest

\* generateDocumentation resolves: break, the document is read, the step
\* changes, finally; a result without documentation throws a TypeError
HS_Resolve(i) ==
  /\ runs[i].pc = "calling"
  /\ \E result \in JsonResults :
       /\ runs' = [runs EXCEPT ![i].pc = "done", ![i].documentation = result,
                                ![i].left = "break"]
       /\ step' = IF result = "full" \/ appVariant = "js" THEN "preview" ELSE step
  /\ loading' = FALSE
  /\ UNCHANGED SubmitRest

\* generateDocumentation rejects: App.jsx lines 112-128, App.js line 176
HS_Reject(i) ==
  /\ runs[i].pc = "calling"
  /\ \E msg \in ErrorMessages :
       LET count == runs[i].retryCount + 1
           failed == Append(runs[i].trace, HsEvent("error", msg, 0))
       IN IF appVariant = "jsx" /\ IncludesTimeout(msg)
             /\ count < FrontendMaxRetries
          THEN /\ runs' = [runs EXCEPT
                  ![i].pc = "waiting", ![i].retryCount = count,
                  ![i].trace = Append(failed, HsEvent("wait", <<>>, FrontendRetryWait))]
               /\ UNCHANGED loading
          ELSE /\ runs' = [runs EXCEPT
                  ![i] = Thrown([@ EXCEPT !.retryCount =
                                   IF appVariant = "jsx" THEN count ELSE 0,
                                 !.trace = failed], "throw")]
               /\ loading' = FALSE
  /\ UNCHANGED step
  /\ UNCHANGED SubmitRest

\* the 2 seconds are over: the while test, then the next call; a test that
\* fails leaves the loop with documentation undefined, and line 132 throws
HS_RetryWake(i) ==
  /\ runs[i].pc = "waiting"
  /\ IF runs[i].retryCount < FrontendMaxRetries
     THEN /\ runs' = [runs EXCEPT ![i].pc = "calling",
                                  ![i].trace = Append(@, CallEvent)]
          /\ UNCHANGED loading
     ELSE /\ runs' = [runs EXCEPT ![i] = Thrown(@, "exhausted")]
          /\ loading' = FALSE
  /\ UNCHANGED step
  /\ UNCHANGED SubmitRest

\* handleBackToForm (App.jsx lines 50-64), setStep('form') (App.js line 357)
HS_Back ==
  /\ step = "preview" /\ ~loading
  /\ step' = "form"
  /\ UNCHANGED <<loading, runs>>
  /\ UNCHANGED SubmitRest

\* the continuations of the handleSubmit that are waiting
HsSteps ==
  \E i \in 1..Len(runs) :
    HS_Uploaded(i) \/ HS_Resolve(i) \/ HS_Reject(i) \/ HS_RetryWake(i)

NextSubmit ==
  \/ HS_Submit
  \/ \E i \in 1..Len(runs) : HS_Uploaded(i)
  \/ \E i \in 1..Len(runs) : HS_Resolve(i)
  \/ \E i \in 1..Len(runs) : HS_Reject(i)
  \/ \E i \in 1..Len(runs) : HS_RetryWake(i)
  \/ HS_Back

SpecSubmit == InitSubmit /\ [][NextSubmit]_vars

\* a request to the backend settles and a timer that is due fires
FairSpecSubmit == SpecSubmit /\ WF_vars(HsSteps)

TypeOK ==
  /\ psPc \in {"idle", "entered", "loop", "race", "sleep", "returned", "thrown"}
  /\ pasPc \in {"idle", "loop", "awaitSection", "awaitWhole", "returned", "thrown"}
  /\ gdPc \in {"idle", "start", "awaiting", "returned", "thrown"}


\* ---------------------------------------------------------------- claims
Max == sectionMaxRetries(env)
Attempts == SelectSeq(trace, LAMBDA e : e.ev = "attempt")
Waits == SelectSeq(trace, LAMBDA e : e.ev = "wait")
Failed(e) == e.ev = "attempt" /\ e.outcome # "ok"
Finished == psPc \in {"returned", "thrown", "idle"}

\* r is t without its leading and trailing whitespace
IsTrimOf(r, t) ==
  /\ r = <<>> \/ (~IsSpace(r[1]) /\ ~IsSpace(r[Len(r)]))
  /\ \E i \in 0..Len(t) :
       /\ i + Len(r) <= Len(t)
       /\ r = SubSeq(t, i + 1, i + Len(r))
       /\ \A j \in (1..i) \cup ((i + Len(r) + 1)..Len(t)) : IsSpace(t[j])

\* C1: processSection starts at most the configured maximum of external calls
\* (SECTION_MAX_RETRIES, else MAX_RETRIES), starts none after the first attempt
\* that succeeds, and returns that attempt's response text, trimmed.
C1_BoundedAttempts ==
  /\ apiCalls <= Max
  /\ Len(Attempts) <= apiCalls
  /\ (env.maxRetries = <<>> \/ env.maxRetries = <<0>>) => Max = MAX_RETRIES
  /\ \A i \in 1..Len(trace) :
       trace[i].outcome = "ok" =>
         /\ i = Len(trace)
         /\ Finished
         /\ apiCalls = trace[i].n
         /\ IsTrimOf(psReturn, trace[i].text)

C1_Witness ==
  /\ psPc = "returned" /\ trace # <<>>
  /\ trace[Len(trace)].outcome = "ok"
  /\ trace[Len(trace)].n = 2
  /\ trace[Len(trace)].text # psReturn

C3_FallbackFromInputs ==
  /\ trace # <<>> => psPc # "thrown"
  /\ (psPc = "returned" /\ \A i \in 1..Len(Attempts) : Failed(Attempts[i])) =>
       /\ Len(Attempts) = Max
       /\ Len(psReturn) = 6 + Len(psContent)
       /\ SubSeq(psReturn, 1, 4) = <<"[", psType, "]", " ">>
       /\ Lower(psReturn[5]) = psType /\ psReturn[5] # psType
       /\ psReturn[6] = "\n"
       /\ SubSeq(psReturn, 7, Len(psReturn)) = psContent

C3_Witness ==
  /\ psPc = "returned" /\ Len(Attempts) = 3
  /\ \A i \in 1..3 : Failed(Attempts[i])
  /\ Attempts[2].outcome = "timeout"
  /\ psType = "segurança"


Configured(t) == t \in SectionTypes /\ t \in env.sys /\ t \in env.user
ConfigErrors == {"unsupported", "unconfigured"}
Range(f) == {f[i] : i \in DOMAIN f}

\* the trimmed non-blank lines of the description and, among them, the marker
\* lines that start a section with content: text after the marker, or an
\* unmarked line right after it
DescLines == NonBlankLines(data.description)
StartsSectionIn(ls, i) ==
  /\ SectionMatch(ls[i])
  /\ \/ Trim(SubSeq(ls[i], 4, Len(ls[i]))) # <<>>
     \/ i < Len(ls) /\ ~SectionMatch(ls[i + 1])
StartsSection(i) == StartsSectionIn(DescLines, i)
SectionStarts == {i \in 1..Len(DescLines) : StartsSection(i)}
\* the section types the description makes the pipeline look up prompts for
NeededTypes ==
  IF SectionStarts = {} THEN {"funcionalidade"}
  ELSE {Lower(DescLines[i][2]) : i \in SectionStarts}

\* C4: for a valid description whose sections' prompt templates are all
\* configured, generation completes without throwing, whatever the external
\* service does.
C4_CompletesWhenConfigured ==
  (/\ entry = "generateDocumentation"
   /\ validateInput(data) = {}
   /\ \A t \in NeededTypes : Configured(t)) =>
    (gdPc # "thrown" /\ pasPc # "thrown" /\ psPc # "thrown")

\* C5: processSection terminates whatever the external service does, also when
\* a call never settles; no attempt lasts longer than its timeout; a timed-out
\* attempt is followed by the retry, delay and fallback steps of a failed one.
C5_TerminatesDespiteHungCall ==
  /\ (psPc \in {"entered", "loop", "race", "sleep"}) ~> (psPc \in {"returned", "thrown"})
  /\ [](\A i \in 1..Len(trace) :
          trace[i].ev = "attempt" => trace[i].ms <= sectionTimeout(env))
  /\ [][(psPc = "race" /\ psPc' # "race" /\ psPc' # "returned") =>
          /\ lastError' \in {"reject", "malformed", "timeout"}
          /\ IF attempt < Max
             THEN /\ psPc' = "sleep" /\ attempt' = attempt
                  /\ trace'[Len(trace')] = WaitEvent(sectionRetryDelay(env))
                  /\ trace'[Len(trace') - 1].outcome = lastError'
             ELSE /\ psPc' = "loop" /\ attempt' = attempt + 1
                  /\ trace'[Len(trace')].outcome = lastError'
          /\ psReturn' = psReturn /\ psError' = psError]_vars

C5_Witness ==
  /\ psPc = "returned" /\ Len(Attempts) = 3
  /\ \A i \in 1..3 : Attempts[i].call = "never" /\ Attempts[i].outcome = "timeout"
  /\ Len(Waits) = 2
  /\ psReturn = FallbackText(psType, psContent)

\* C6: an unsupported section type or a missing system or user prompt makes
\* processSection throw a configuration error before any external call, retry
\* or delay, and the error reaches the caller of the pipeline: no fallback text
\* stands in for it.
C6_ConfigErrorPropagates ==
  /\ psPc = "thrown" =>
       /\ psError \in ConfigErrors /\ ~Configured(psType)
       /\ apiCalls = 0 /\ trace = <<>> /\ attempt = 0 /\ psReturn = <<>>
  /\ psPc \in {"loop", "race", "sleep", "returned"} => Configured(psType)
  /\ pasPc = "thrown" =>
       /\ pasError = psError /\ pasError \in ConfigErrors
       /\ ~Configured(invocations[Len(invocations)])
  /\ (gdPc = "thrown" /\ gdError # "validation") =>
       /\ gdError = psError /\ gdError \in ConfigErrors /\ documentation = <<>>
  /\ (\E i \in 1..Len(invocations) : ~Configured(invocations[i])) =>
       /\ pasPc # "returned" /\ gdPc # "returned"
       /\ psPc \notin {"loop", "race", "sleep", "returned"}

C6_Witness ==
  /\ gdPc = "thrown" /\ gdError = "unconfigured"
  /\ Len(invocations) = 2 /\ results # <<>>
  /\ invocations[2] \in env.sys /\ invocations[2] \notin env.user

\* C7: for each section handed to the generator, whatever the external service
\* returns, the outcome text is non-empty and adds at least one annotated line
\* to the merged content.
C7_EverySectionYieldsALine ==
  (pasPc \in {"awaitSection", "awaitWhole"} /\ psPc = "returned") =>
    (psReturn # <<>> /\ Len(PostProcess(psType, psReturn)) >= 1)

RECURSIVE StartTypesIn(_, _)
StartTypesIn(ls, i) ==
  IF i > Len(ls) THEN <<>>
  ELSE (IF StartsSectionIn(ls, i) THEN <<Lower(ls[i][2])>> ELSE <<>>)
         \o StartTypesIn(ls, i + 1)
StartTypesFrom(i) == StartTypesIn(DescLines, i)

BeginsWithTag(t) ==
  /\ Len(t) >= 3 /\ t[1] = "[" /\ t[2] # "]"
  /\ \E k \in 3..Len(t) : t[k] = "]"

\* C9: every emitted line is the section's tag followed by a trimmed line
\* whose leading bracket tag has been removed; stripping what was stripped
\* changes nothing, so no emitted line carries a bracket tag after its
\* annotation.
C9_NoTagAfterAnnotation ==
  \A i \in 1..Len(results) :
    LET rest == SubSeq(results[i], 5, Len(results[i]))
    IN /\ SubSeq(results[i], 1, 4) \in {<<"[", t, "]", " ">> : t \in SectionTypes}
       /\ ~BeginsWithTag(rest)
       /\ CleanedLine(rest) = rest


\* the atoms of the text that begin a non-blank line: the first atom of its
\* line that is not whitespace
LineStarts(t) ==
  {i \in 1..Len(t) :
     /\ ~IsSpace(t[i])
     /\ \A j \in 1..(i - 1) :
          (\A k \in j..(i - 1) : t[k] # "\n") => IsSpace(t[j])}

\* the k-th smallest element of a set of numbers
Nth(S, k) == CHOOSE i \in S : Cardinality({j \in S : j < i}) = k - 1

\* the line that begins at atom i, up to its last atom that is not whitespace
LineFrom(t, i) ==
  LET ends == {e \in i..Len(t) :
                 /\ ~IsSpace(t[e])
                 /\ \A k \in i..e : t[k] # "\n"
                 /\ \A k \in (e + 1)..Len(t) :
                      (\A m \in (e + 1)..k : t[m] # "\n") => IsSpace(t[k])}
  IN SubSeq(t, i, CHOOSE e \in ends : TRUE)

\* C10: parseMarkdownContent returns one entry per non-blank line, in input
\* order, none for a blank line, and the empty array for null, empty or
\* non-string input.
C10_OneEntryPerNonBlankLine ==
  pmcPc = "returned" =>
    IF pmcContent.kind # "string"
    THEN parsedSections = <<>>
    ELSE /\ Len(parsedSections) = Cardinality(LineStarts(pmcContent.text))
         /\ \A k \in 1..Len(parsedSections) :
              LET line == LineFrom(pmcContent.text, Nth(LineStarts(pmcContent.text), k))
              IN \/ parsedSections[k].content = line
                 \/ /\ Len(line) >= 3 /\ line[1] = "[" /\ line[3] = "]"
                    /\ parsedSections[k].content = Trim(SubSeq(line, 4, Len(line)))

C10_Witness ==
  /\ pmcPc = "returned"
  /\ pmcContent.kind = "string"
  /\ Len(parsedSections) = 2
  /\ \E i \in 1..(Len(pmcContent.text) - 1) :
       pmcContent.text[i] = "\n" /\ pmcContent.text[i + 1] = "\n"

\* the lines of a text that parseMarkdownContent makes an entry of, in order
EntryLines(t) ==
  [k \in 1..Cardinality(LineStarts(t)) |-> LineFrom(t, Nth(LineStarts(t), k))]

\* the alias table: the category a bracketed tag stands for
AliasCategory(tag) ==
  CASE tag \in {"nova", "new", "funcionalidade"} -> "feature"
    [] tag \in {"correção", "bug", "fixed"} -> "bugfix"
    [] tag \in {"performance", "melhoria", "speed"} -> "performance"
    [] tag \in {"segurança", "security"} -> "security"
    [] tag \in {"recurso", "resource", "manual"} -> "resource"
    [] OTHER -> "none"

\* the line begins with a bracketed tag of the alias table, in any letter case
HasExplicitMarker(line) ==
  /\ Len(line) >= 3
  /\ line[1] = "[" /\ line[3] = "]"
  /\ AliasCategory(Lower(line[2])) # "none"

Classified == pmcPc = "returned" /\ pmcContent.kind = "string"

\* C11: a line that begins with a bracketed tag of the alias table, in any
\* letter case, is classified by that tag whatever keywords the rest of the
\* line holds, and its stored content is the line without the tag prefix.
C11_MarkerWinsOverKeywords ==
  Classified =>
    /\ Len(parsedSections) = Len(EntryLines(pmcContent.text))
    /\ \A k \in 1..Len(parsedSections) :
         LET line == EntryLines(pmcContent.text)[k]
         IN HasExplicitMarker(line) =>
              /\ parsedSections[k].type = AliasCategory(Lower(line[2]))
              /\ parsedSections[k].content = Trim(SubSeq(line, 4, Len(line)))

\* "[BUG] nova": an upper-case bugfix tag before a feature keyword
C11_Witness ==
  /\ Classified
  /\ pmcContent.text = <<"[", "BUG", "]", " ", "nova">>
  /\ parsedSections = <<[type |-> "bugfix", content |-> <<"nova">>]>>

\* the fixed order of the keyword sets
KeywordOrder ==
  <<"feature", "enhancement", "bugfix", "performance", "security",
    "known_issue", "deprecated", "resource">>

KeywordsOf(cat) ==
  CASE cat = "feature" -> {"nova", "new", "adicionado", "implementado"}
    [] cat = "enhancement" ->
         {"melhorado", "enhanced", "otimizado", "upgraded", "melhoria",
          "improvement", "redução", "reduction"}
    [] cat = "bugfix" -> {"corrigido", "fixed", "bug", "erro"}
    [] cat = "performance" ->
         {"performance", "velocidade", "speed", "tempo", "redução",
          "reduction", "carregamento", "loading", "otimização", "optimization"}
    [] cat = "security" -> {"segurança", "security", "vulnerabilidade"}
    [] cat = "known_issue" -> {"problema", "issue", "conhecido"}
    [] cat = "deprecated" -> {"deprecated", "obsoleto", "removido"}
    [] cat = "resource" -> {"recurso", "resource", "manual", "documentação"}

\* the positions in KeywordOrder of the categories a keyword of which the
\* line holds
CategoriesIn(line) ==
  {i \in 1..Len(KeywordOrder) :
     \E j \in 1..Len(line) : Lower(line[j]) \in KeywordsOf(KeywordOrder[i])}

\* C12: a line without an explicit marker is classified as the earliest
\* category, in the order feature, enhancement, bugfix, performance, security,
\* known_issue, deprecated, resource, a keyword of which it holds, and as
\* feature when it holds no keyword.
C12_EarliestKeywordCategory ==
  Classified =>
    /\ Len(parsedSections) = Len(EntryLines(pmcContent.text))
    /\ \A k \in 1..Len(parsedSections) :
         LET line == EntryLines(pmcContent.text)[k]
             cats == CategoriesIn(line)
         IN ~HasExplicitMarker(line) =>
              parsedSections[k].type =
                IF cats = {} THEN "feature"
                ELSE KeywordOrder[CHOOSE i \in cats : \A j \in cats : i <= j]

\* "performance corrigido": keywords of two categories, the later one first
C12_Witness ==
  /\ Classified
  /\ pmcContent.text = <<"performance", " ", "corrigido">>
  /\ parsedSections =
       <<[type |-> "bugfix", content |-> <<"performance", " ", "corrigido">>]>>

\* C13 as stated: every entry's content is non-empty after trimming.
C13_ContentNeverEmpty ==
  Classified =>
    \A k \in 1..Len(parsedSections) : Trim(parsedSections[k].content) # <<>>

\* C13 amended: an entry's content is trimmed, and it is empty exactly when
\* the line consists of an explicit marker only.
C13_EmptyOnlyForBareMarker ==
  Classified =>
    /\ Len(parsedSections) = Len(EntryLines(pmcContent.text))
    /\ \A k \in 1..Len(parsedSections) :
         LET line == EntryLines(pmcContent.text)[k]
             c == parsedSections[k].content
         IN /\ Trim(c) = c
            /\ c = <<>> <=> (HasExplicitMarker(line) /\ Len(line) = 3)

C13_Witness ==
  /\ Classified
  /\ pmcContent.text = <<"[", "bug", "]", "\n">>
  /\ parsedSections = <<[type |-> "bugfix", content |-> <<>>]>>

\* the document's children have been built
Assembled == wdPc \in {"pack", "returned"}

\* the fixed display order of the sections
DisplayOrder ==
  <<"feature", "bugfix", "performance", "enhancement", "security", "resource">>

\* the categories of the headings of the document, in the order they appear
Headings ==
  LET hs == SelectSeq(children, LAMBDA p : p.kind = "heading")
  IN [k \in 1..Len(hs) |-> hs[k].text[1]]

\* the entries of a category, in input order
EntriesOf(cat) == SelectSeq(parsedSections, LAMBDA e : e.type = cat)

\* the paragraphs between the heading of a category and the next heading
ItemsOf(cat) ==
  LET at == CHOOSE i \in 1..Len(children) :
              children[i].kind = "heading" /\ children[i].text = <<cat>>
      later == {j \in (at + 1)..Len(children) : children[j].kind = "heading"}
      stop == IF later = {} THEN Len(children) + 1
              ELSE CHOOSE j \in later : \A m \in later : j <= m
  IN SubSeq(children, at + 1, stop - 1)

\* C14: a section heading appears exactly when an entry has its category, the
\* headings are in the order feature, bugfix, performance, enhancement,
\* security, resource whatever the order of the entries, and the bullets of a
\* section are its entries in input order.
C14_SectionsInDisplayOrder ==
  Assembled =>
    /\ Headings = SelectSeq(DisplayOrder, LAMBDA c : EntriesOf(c) # <<>>)
    /\ \A k \in 1..Len(Headings) :
         LET items == ItemsOf(Headings[k])
             entries == EntriesOf(Headings[k])
         IN /\ Len(items) = Len(entries)
            /\ \A n \in 1..Len(items) :
                 \/ items[n].kind = "placeholder" /\ entries[n].content = <<>>
                 \/ /\ items[n].kind = "bullet"
                    /\ items[n].text = sanitizedContent(entries[n].content)

\* a resource line before a bugfix line: the bugfix section comes first
C14_Witness ==
  /\ wdPc = "returned"
  /\ Len(parsedSections) = 2
  /\ parsedSections[1].type = "resource" /\ parsedSections[2].type = "bugfix"
  /\ Headings = <<"bugfix", "resource">>
  /\ ItemsOf("bugfix") = <<[kind |-> "bullet", text |-> <<"y">>]>>

\* C15: every entry of a rendered category gives one bullet of its section,
\* none of them empty: an entry whose content is missing, or empty after
\* sanitization, gives the marked placeholder.
C15_NoEmptyBullet ==
  Assembled =>
    \A k \in 1..Len(Headings) :
      LET items == ItemsOf(Headings[k])
          entries == EntriesOf(Headings[k])
      IN /\ Len(items) = Len(entries)
         /\ \A n \in 1..Len(items) :
              /\ items[n].text # <<>>
              /\ sanitizedContent(entries[n].content) = <<>>
                   => items[n].kind = "placeholder"

\* the logo is one generateWordDocument and createHeaderWithLogo can embed
Processable_Logo ==
  /\ logo.kind \in {"dataURI", "object"}
  /\ logo.mime \in {"png", "jpeg", "jpg"}
  /\ logo.long /\ logo.decodes

\* C16: generateWordDocument never throws because of the logo: for every logo
\* it returns a document, whose header is empty when the logo could not be
\* processed.
C16_LogoNeverAborts ==
  /\ wdPc # "thrown"
  /\ wdPc = "returned" =>
       /\ wdReturn = "buffer"
       /\ headerParagraph.kind = "paragraph"
       /\ ~Processable_Logo => headerParagraph = EmptyHeader

\* createHeaderWithLogo has returned a paragraph that holds an image
Embedded == chlPc = "returned" /\ headerParagraph.image

\* C17: an embedded logo has a positive width and height, the height not
\* above maxHeight and the width not above targetWidth; a 4000x2000 source
\* with targetWidth 120 and maxHeight 100 is embedded with height <= 100.
C17_FitsTheBox ==
  /\ Embedded =>
       /\ headerParagraph.width > 0 /\ headerParagraph.height > 0
       /\ headerParagraph.height <= maxHeight
       /\ headerParagraph.width <= targetWidth
  /\ ( /\ chlPc = "returned"
       /\ logo.kind = "buffer" /\ logo.long /\ logo.decodes
       /\ logo.width = 4000 /\ logo.height = 2000
       /\ targetWidth = 120 /\ maxHeight = 100 )
     => headerParagraph.image /\ headerParagraph.height <= 100

\* some exact scaling of (w0, h0) is within 1 of (w, h) in both directions
Proportional(w, h, w0, h0) ==
  /\ (w - 1) * h0 <= (h + 1) * w0
  /\ (h - 1) * w0 <= (w + 1) * h0

\* C18: an embedded logo is never wider than targetWidth, and its width and
\* height are within 1 pixel of an exact proportional scaling of the source.
C18_ShrinksInProportion ==
  Embedded =>
    /\ headerParagraph.width <= targetWidth
    /\ Proportional(headerParagraph.width, headerParagraph.height,
                    logo.width, logo.height)

\* the logo's bytes reach the dimension check of the variant
ReachesDimensionCheck ==
  IF variant = "sync" THEN SyncAccepts(logo) /\ logo.decodes
  ELSE AsyncAccepts(logo)

\* C19: an image below 10x10 or above 2000x2000 is not embedded, and an image
\* within both bounds passes the dimension check.
C19_DimensionBounds ==
  (chlPc = "returned" /\ ReachesDimensionCheck) =>
    LET small == logo.width < 10 \/ logo.height < 10
        large == logo.width > 2000 \/ logo.height > 2000
    IN /\ (small \/ large) => ~headerParagraph.image
       /\ ~(small \/ large) => headerParagraph.image

\* the allowed class as the claim words it
InStatedClass(a) ==
  CharKind(a) \in {"word", "space", "punctuation", "accented, listed",
                   "accented, not listed"}

\* the allowed class with the underscore, and only the listed accented letters
InCodeClass(a) ==
  CharKind(a) \in {"word", "underscore", "space", "punctuation",
                   "accented, listed"}

AllIn(text, Class(_)) == \A i \in 1..Len(text) : Class(text[i])

\* the pairs of a sanitized content and the bullet text made of it
Sanitized ==
  UNION { {<<EntriesOf(Headings[k])[n].content, ItemsOf(Headings[k])[n].text>> :
             n \in {m \in 1..Len(ItemsOf(Headings[k])) :
                      ItemsOf(Headings[k])[m].kind = "bullet"}}
          : k \in 1..Len(Headings) }

\* C20 as stated: a line of letters, digits, accented Latin letters,
\* whitespace and - . , ; : ! ? ( ) % is returned unchanged, and every result
\* holds only such characters.
C20_StatedClassIsKept ==
  Assembled =>
    \A p \in Sanitized :
      /\ AllIn(p[1], InStatedClass) => p[2] = p[1]
      /\ AllIn(p[2], InStatedClass)

\* C20 amended: the class is letters, digits and the underscore, the accented
\* letters the expression lists, whitespace and the punctuation; a content of
\* that class is returned unchanged and every result holds only that class.
C20_CodeClassIsKept ==
  Assembled =>
    \A p \in Sanitized :
      /\ AllIn(p[1], InCodeClass) => p[2] = p[1]
      /\ AllIn(p[2], InCodeClass)

C20_Witness ==
  /\ wdPc = "returned"
  /\ <<<<"ação", " ", "%">>, <<"ação", " ", "%">>>> \in Sanitized
  /\ <<<<"#", " ", "x", ",">>, <<"x", ",">>>> \in Sanitized

\* the six categories a section is rendered for
Rendered == {DisplayOrder[i] : i \in 1..Len(DisplayOrder)}

\* the paragraphs of the document that are not headings
Bullets == SelectSeq(children, LAMBDA p : p.kind # "heading")

\* C21: every entry of a rendered category is exactly one bullet of the
\* section of its category, and known_issue and deprecated entries give no
\* heading and no bullet.
C21_UnrenderedCategoriesDropped ==
  Assembled =>
    /\ \A c \in Rendered :
         IF EntriesOf(c) = <<>>
         THEN \A i \in 1..Len(children) : children[i].text # <<c>>
         ELSE Len(ItemsOf(c)) = Len(EntriesOf(c))
    /\ \A i \in 1..Len(children) :
         children[i].kind = "heading" => children[i].text[1] \in Rendered
    /\ Len(Bullets) =
         Len(SelectSeq(parsedSections, LAMBDA e : e.type \in Rendered))

\* a known_issue line and a feature line: one heading, one bullet
C21_Witness ==
  /\ wdPc = "returned"
  /\ Len(parsedSections) = 2
  /\ parsedSections[1].type = "known_issue" /\ parsedSections[2].type = "feature"
  /\ Len(children) = 2
  /\ Headings = <<"feature">>

\* generateDocumentation has gone past the validation of its input
Validated == gdPc \in {"awaiting", "returned", "thrown"}

\* the three characters '...' appended to a cut description
Ellipsis == <<"...">>

\* C22: a description longer than MAX_DESCRIPTION_LENGTH is accepted and its
\* first MAX_DESCRIPTION_LENGTH characters followed by '...' are what is
\* processed; a description within the limit is processed unchanged.
C22_LongDescriptionTruncated ==
  (Validated /\ validateInputAnyLength(data) = {}) =>
    /\ gdError # "validation"
    /\ gdPc = "awaiting" /\ pasPc = "loop" /\ idx = 1 =>
         sections =
           extractSectionsFromContent(
             IF Len(data.description) > MAX_DESCRIPTION_LENGTH
             THEN SubSeq(data.description, 1, MAX_DESCRIPTION_LENGTH) \o Ellipsis
             ELSE data.description)

\* what a trimmed line gives to a section: the text after its marker, or
\* the line itself
LinePart(l) == IF SectionMatch(l) THEN Trim(SubSeq(l, 4, Len(l))) ELSE l

RECURSIVE LineParts(_)
LineParts(ls) ==
  IF ls = <<>> THEN <<>>
  ELSE (IF LinePart(Head(ls)) = <<>> THEN <<>> ELSE <<LinePart(Head(ls))>>)
         \o LineParts(Tail(ls))

\* the lines of the contents of the sections, in the order of the sections
RECURSIVE ContentLines(_)
ContentLines(ss) ==
  IF ss = <<>> THEN <<>>
  ELSE NonBlankLines(Head(ss).content) \o ContentLines(Tail(ss))

\* processAllSections holds the sections of the description
Extracted == entry = "generateDocumentation" /\ gdPc = "awaiting"

\* C27: when the description holds a marker, its non-blank lines, each
\* without its marker, are the lines of the contents of the returned
\* sections, in input order: no line is lost and none is in two sections.
\* (A description without any marker gives no section and is processed
\* whole.)
C27_NoLineLost ==
  (Extracted /\ sections # <<>>) =>
    ContentLines(sections) = LineParts(NonBlankLines(data.description))

\* the category parseMarkdownContent gives to a tag of sectionTypeMap
CategoryOfTag(t) ==
  CASE t = "funcionalidade" -> "feature"
    [] t = "bug" -> "bugfix"
    [] t = "performance" -> "performance"
    [] t = "segurança" -> "security"
    [] t = "recurso" -> "resource"

\* texts a cleaned line can be: empty, plain, holding a keyword of another
\* category, or beginning with a second tag
CleanedSamples ==
  {<<>>, <<"x">>, <<"melhorado">>, <<"conhecido", " ", "obsoleto">>,
   <<"[", "bug", "]", " ", "x">>}

\* the classifier's entry for an annotated line is the tag's category and
\* the text after the tag
ByMarker(line) ==
  /\ StartsWithMarker(Trim(line), SectionTypes)
  /\ EntryOf(Trim(line)) =
       [type |-> CategoryOfTag(line[2]),
        content |-> Trim(SubSeq(line, 4, Len(line)))]

\* C26: every line the pipeline returns is classified by its marker into the
\* category of its tag, for each of the five tags, and no entry of the
\* pipeline's output is an enhancement, a known issue or deprecated.
C26_PipelineClassifiedByMarker ==
  /\ (entry = "generateDocumentation" /\ gdPc = "start") =>
       \A t \in SectionTypes : \A c \in CleanedSamples : ByMarker(Annotate(t, c))
  /\ (entry = "generateDocumentation" /\ gdPc = "returned") =>
       LET parsed == parseMarkdownContent([kind |-> "string", text |-> documentation])
       IN /\ Len(parsed) = Len(results)
          /\ \A i \in 1..Len(results) :
               /\ StartsWithMarker(results[i], SectionTypes)
               /\ parsed[i] =
                    [type |-> CategoryOfTag(results[i][2]),
                     content |-> Trim(SubSeq(results[i], 4, Len(results[i])))]
               /\ parsed[i].type \notin {"enhancement", "known_issue", "deprecated"}

\* a returned document with a line whose text holds a tag after the
\* annotation and a line of another category
C26_Witness ==
  /\ entry = "generateDocumentation" /\ gdPc = "returned"
  /\ Len(results) >= 2
  /\ results[1][2] = "recurso"
  /\ \E i \in 1..Len(results) : results[i][2] = "bug"

\* the types of the sections among the first n that processSection is
\* called for, in order
RECURSIVE CalledTypes(_)
CalledTypes(n) ==
  IF n = 0 THEN <<>>
  ELSE CalledTypes(n - 1)
         \o (IF Processable(sections[n]) THEN <<sections[n].type>> ELSE <<>>)

\* processAllSections has rethrown the error of a section
SectionFailed == pasError # ""

\* C28: an external call is started only for the section the loop is at,
\* after the calls of the sections before it have ended and with no call made
\* for a section after it; once a section has raised a configuration error no
\* content is returned, no further processSection call and no further
\* external call is made.
C28_SequentialAllOrNothing ==
  [][/\ (entry = "generateDocumentation" /\ apiCalls' > apiCalls) =>
          \/ /\ pasPc = "awaitSection"
             /\ psType = sections[idx].type /\ psContent = sections[idx].content
             /\ invocations = CalledTypes(idx)
          \/ /\ pasPc = "awaitWhole"
             /\ results = <<>>
             /\ invocations = Append(CalledTypes(Len(sections)), "funcionalidade")
     /\ (entry = "generateDocumentation" /\ idx' # idx /\ idx # 0) =>
          (psPc' = "idle" /\ idx' = idx + 1)
     /\ SectionFailed' =>
          /\ pasReturn' = <<>> /\ documentation' = <<>>
          /\ psPc' = "idle" /\ gdPc' # "returned"
          /\ psError' \in {"unsupported", "unconfigured"}
          /\ SectionFailed => (apiCalls' = apiCalls /\ invocations' = invocations)
          /\ ~SectionFailed =>
               invocations' =
                 IF pasPc = "awaitSection" THEN CalledTypes(idx)
                 ELSE Append(CalledTypes(Len(sections)), "funcionalidade")
    ]_vars

\* the second section raised the error after the first one's calls were made
\* and its lines were collected
C28_Witness ==
  /\ gdPc = "thrown" /\ gdError = "unconfigured"
  /\ idx = 2 /\ Len(invocations) = 2
  /\ results # <<>>
  /\ documentation = <<>>

\* the last event of the trace is an attempt that received its completion
\* before its timer fired, and its trimmed text is what was returned
ReturnedInTime ==
  /\ trace # <<>>
  /\ trace[Len(trace)].ev = "attempt" /\ trace[Len(trace)].outcome = "ok"
  /\ trace[Len(trace)].ms < sectionTimeout(env)
  /\ psReturn = Trim(trace[Len(trace)].text)

\* every attempt failed and the fallback text was returned
ReturnedFallback ==
  /\ \A i \in 1..Len(trace) : trace[i].outcome # "ok"
  /\ Len(Attempts) = Max
  /\ psReturn = FallbackText(psType, psContent)

\* C25 as stated: the text processSection returns is always the response of
\* an attempt that settled before that attempt's timeout.
C25_ReturnIsAlwaysAResponse ==
  (entry = "processSection" /\ psPc = "returned") => ReturnedInTime

\* C25 amended: the text processSection returns is the response of an
\* attempt that settled before that attempt's timeout, or the fallback text
\* after every attempt failed; a call still pending when its timer fires is
\* left running, the attempt it belongs to never returns, and its response,
\* when it arrives, changes nothing of the invocation.
C25_LateResponseNeverUsed ==
  /\ []((entry = "processSection" /\ psPc = "returned") =>
          (ReturnedInTime \/ ReturnedFallback))
  /\ [][(psPc = "race" /\ TimerFirst) => psPc' # "returned"]_vars
  /\ [][late' # late =>
          /\ late < AbandonedCalls
          /\ UNCHANGED <<psPc, psReturn, psError, attempt, lastError, svc,
                         trace, apiCalls>>]_vars

\* the first call was pending at its timeout, its response arrived later, and
\* the text returned is the second attempt's
C25_Witness ==
  /\ entry = "processSection" /\ psPc = "returned"
  /\ AbandonedCalls = 1 /\ late = 1
  /\ Len(Attempts) = 2 /\ Attempts[1].outcome = "timeout"
  /\ ReturnedInTime

\* a notification is on display
Visible == notification # NoNotification

\* C23: a notification on display is removed only when its own 3 seconds
\* have elapsed, unless a newer notification takes its place, and none is on
\* display for more than 3 seconds.
C23_DismissedAfterOwnDelay ==
  /\ [][(Visible /\ ~Visible') => now >= notification.at + NotificationDelay]_vars
  /\ [](Visible => now <= notification.at + NotificationDelay)

\* the part of C23 that holds: no notification outlives its 3 seconds
C23_NeverLongerThanDelay ==
  Visible => now <= notification.at + NotificationDelay

GcAttempts == SelectSeq(gcTrace, LAMBDA e : e.ev = "attempt")
GcWaits == SelectSeq(gcTrace, LAMBDA e : e.ev = "wait")

\* the caption is the trimmed text of the first attempt that succeeded
CaptionOfFirstSuccess ==
  /\ gcTrace # <<>>
  /\ gcTrace[Len(gcTrace)].outcome = "ok"
  /\ gcReturn = Trim(gcTrace[Len(gcTrace)].text)
  /\ \A i \in 1..(Len(gcTrace) - 1) : gcTrace[i].outcome # "ok"

\* every one of MAX_RETRIES attempts failed, with a RETRY_DELAY wait after
\* each but the last, and the caption is the fallback
CaptionAfterAllFailed ==
  /\ Len(GcAttempts) = MAX_RETRIES
  /\ \A i \in 1..Len(gcTrace) : gcTrace[i].outcome # "ok"
  /\ Len(GcWaits) = MAX_RETRIES - 1
  /\ \A i \in 1..Len(gcTrace) :
       gcTrace[i].ev = "wait" =>
         /\ gcTrace[i].ms = RETRY_DELAY
         /\ i > 1 /\ gcTrace[i - 1].ev = "attempt"
         /\ i < Len(gcTrace) /\ gcTrace[i + 1].ev = "attempt"
  /\ gcReturn = CaptionFallback(imageDescription)

\* C29: generateImageCaption returns the trimmed caption of the first
\* successful attempt or, after MAX_RETRIES failed attempts with RETRY_DELAY
\* waits between them, the fallback caption; when IMAGE_CAPTION_PROMPT is not
\* set it makes no external call and returns the fallback caption.
C29_CaptionOrFallback ==
  /\ gcPc = "returned" => (CaptionOfFirstSuccess \/ CaptionAfterAllFailed)
  /\ ~captionPrompt =>
       /\ gcPc # "call"
       /\ \A i \in 1..Len(gcTrace) : ~gcTrace[i].called
       /\ gcPc = "returned" => gcReturn = CaptionFallback(imageDescription)

\* C29 without its last part: what holds of both generateImageCaption
C29_ReturnsCaptionOrFallback ==
  gcPc = "returned" => (CaptionOfFirstSuccess \/ CaptionAfterAllFailed)

\* the handleSubmit executions that have not ended, and those among them
\* whose generation request is in flight
ActiveRuns == {i \in 1..Len(runs) : runs[i].pc \in {"uploading", "calling", "waiting"}}
InFlight == {i \in 1..Len(runs) : runs[i].pc = "calling"}

\* C24: while loading is true no handleSubmit starts, so at most one
\* handleSubmit is under way and at most one generation request is in
\* flight; loading is true exactly while a submission is under way and is
\* set back to false when the submission ends, by success or by failure.
C24_SingleSubmission ==
  /\ [](Cardinality(ActiveRuns) <= 1 /\ Cardinality(InFlight) <= 1)
  /\ [](loading <=> ActiveRuns # {})
  /\ [][Len(runs') > Len(runs) => ~loading]_vars
  /\ loading ~> ~loading

\* a second submission is under way after the first one failed
C24_Witness ==
  /\ Len(runs) = 2
  /\ runs[1].pc = "done" /\ runs[1].left = "throw"
  /\ runs[2].pc = "calling" /\ loading

\* the message holds the word 'timeout', in lower case
MessageContainsTimeout(msg) == \E k \in 1..Len(msg) : msg[k] = "timeout"

CallsOf(r) == Len(SelectSeq(r.trace, LAMBDA e : e.ev = "call"))

\* C30: a handleSubmit of App.jsx calls generateDocumentation at most 3
\* times; every call after the first follows a 2 second wait that follows an
\* error whose message contains 'timeout'; an error without it is the end of
\* the submission; the loop is never left by its test failing, and when it
\* is left by the break the documentation result is defined.
C30_RetryOnlyOnTimeout ==
  appVariant = "jsx" =>
    \A i \in 1..Len(runs) :
      LET t == runs[i].trace
      IN /\ CallsOf(runs[i]) <= 3
         /\ \A k \in 2..Len(t) :
              t[k].ev = "call" =>
                /\ k >= 3
                /\ t[k - 1].ev = "wait" /\ t[k - 1].ms = 2000
                /\ t[k - 2].ev = "error" /\ MessageContainsTimeout(t[k - 2].msg)
         /\ \A k \in 1..Len(t) :
              (t[k].ev = "error" /\ ~MessageContainsTimeout(t[k].msg)) =>
                (k = Len(t) /\ runs[i].pc = "done" /\ runs[i].left = "throw")
         /\ runs[i].left # "exhausted"
         /\ runs[i].left = "break" => runs[i].documentation # "undefined"

\* three calls, each ended by a timeout, then the submission failed
C30_Witness ==
  /\ appVariant = "jsx" /\ Len(runs) >= 1
  /\ CallsOf(runs[1]) = 3
  /\ runs[1].pc = "done" /\ runs[1].left = "throw"
  /\ runs[1].retryCount = 3

====
